---- MODULE Spec2Model ----
(***************************************************************************)
(* A model of the cost-calculation backend: the Calculator engine          *)
(* (services/calculator.js), the cache manager (utils/cache.js) and the    *)
(* ODS defaults provider (services/odsParser.js).                          *)
(*                                                                         *)
(* JavaScript values are records tagged by t: a number is an exact         *)
(* rational [t |-> "num", n, d] in lowest terms (d > 0), undefined and     *)
(* null are [t |-> "undefined"] and [t |-> "null"], a non-numeric string   *)
(* is [t |-> "str"].  Objects are functions from property names to values; *)
(* an absent property is a name outside the DOMAIN.  IEEE-754 doubles are  *)
(* abstracted by exact rationals.                                          *)
(***************************************************************************)
EXTENDS Integers, Sequences, FiniteSets, TLC

(***************************************************************************)
(* Exact rational arithmetic                                               *)
(***************************************************************************)
Abs(i) == IF i < 0 THEN -i ELSE i

RECURSIVE GCD(_, _)
GCD(a, b) == IF b = 0 THEN a ELSE GCD(b, a % b)

\* the number n/d (d # 0) in lowest terms with a positive denominator
Num(n, d) ==
    LET s == IF d < 0 THEN -1 ELSE 1
        g == GCD(Abs(n), Abs(d))
    IN  [t |-> "num", n |-> (s * n) \div g, d |-> (s * d) \div g]

Int2Num(i) == [t |-> "num", n |-> i, d |-> 1]
Zero == Int2Num(0)

\* common factors are divided out before multiplying, to keep the integers small
RAdd(a, b) ==
    LET g == GCD(a.d, b.d)
    IN  Num(a.n * (b.d \div g) + b.n * (a.d \div g), (a.d \div g) * b.d)
RMul(a, b) ==
    LET g1 == GCD(Abs(a.n), b.d)
        g2 == GCD(Abs(b.n), a.d)
    IN  Num((a.n \div g1) * (b.n \div g2), (a.d \div g2) * (b.d \div g1))
RDiv(a, b) == RMul(a, Num(b.d, b.n))
RLeq(a, b) ==
    LET g == GCD(a.d, b.d)
    IN  a.n * (b.d \div g) <= b.n * (a.d \div g)
RLt(a, b) ==
    LET g == GCD(a.d, b.d)
    IN  a.n * (b.d \div g) < b.n * (a.d \div g)
RFloor(a) == a.n \div a.d

(***************************************************************************)
(* JavaScript values and objects                                           *)
(***************************************************************************)
Undefined == [t |-> "undefined"]
Null == [t |-> "null"]
NaNString == [t |-> "str"]
EmptyObject == [k \in {} |-> Undefined]

IsNum(v) == v.t = "num"
IsNullish(v) == v.t \in {"undefined", "null"}

\* obj[k] of JavaScript: undefined for an absent property
Get(obj, k) == IF k \in DOMAIN obj THEN obj[k] ELSE Undefined

\* { ...a, ...b }
Spread(a, b) ==
    [k \in DOMAIN a \cup DOMAIN b |-> IF k \in DOMAIN b THEN b[k] ELSE a[k]]

\* v || {} for an object-valued property
OrEmpty(v) == IF "t" \in DOMAIN v /\ IsNullish(v) THEN EmptyObject ELSE v

\* a ?? b
Nullish(a, b) == IF IsNullish(a) THEN b ELSE a

\* const name = value; body -- written Only({ body : name \in {value} }):
\* the value is computed once, before the body.  In a chain of them the
\* first constant of the source is the outermost, so the last line.
Only(S) == CHOOSE r \in S : TRUE

(***************************************************************************)
(* config/constants.js                                                     *)
(***************************************************************************)
BATCH_RANGES == <<"0-50", "51-100", "101-200">>
SUPPORTED_CURRENCIES == <<"EUR", "USD", "GBP">>
FABRIC_FIELDS == <<"price_eur", "metre_eur", "unit_eur">>
DEFAULT_BATCH ==
    [r \in {"0-50", "51-100", "101-200"} |->
        IF r = "0-50" THEN Int2Num(25)
        ELSE IF r = "51-100" THEN Int2Num(75) ELSE Int2Num(150)]
PERCENTAGE_DIVISOR == 100
MIN_POSITIVE_NUMBER == Num(1, 1000)
MAX_PERCENTAGE == 100
MIN_PERCENTAGE == 0
MAX_BATCH_SIZE == 10000
MIN_BATCH_SIZE == 1

Ranges == {BATCH_RANGES[i] : i \in DOMAIN BATCH_RANGES}
Currencies == {SUPPORTED_CURRENCIES[i] : i \in DOMAIN SUPPORTED_CURRENCIES}

(***************************************************************************)
(* Calculator: number helpers                                              *)
(***************************************************************************)
getValidNumber(value) ==
    IF value.t \in {"undefined", "null", "str"} THEN Zero ELSE value

isValidPositiveNumber(value) == RLeq(MIN_POSITIVE_NUMBER, getValidNumber(value))

isValidPercentage(value) ==
    LET num == getValidNumber(value)
    IN  RLeq(Int2Num(MIN_PERCENTAGE), num) /\ RLeq(num, Int2Num(MAX_PERCENTAGE))

isValidBatchSize(value) ==
    LET num == getValidNumber(value)
    IN  RLeq(Int2Num(MIN_BATCH_SIZE), num) /\ RLeq(num, Int2Num(MAX_BATCH_SIZE))

\* a variant that hands back the numerator when the denominator is 0
safeDivision_keepsNumerator(numerator, denominator) ==
    Only({ Only({
        IF validDenominator = Zero THEN validNumerator
        ELSE RDiv(validNumerator, validDenominator)
    : validDenominator \in {getValidNumber(denominator)} })
    : validNumerator \in {getValidNumber(numerator)} })

\* validDenominator === 0 returns 0 before the division
safeDivision(numerator, denominator) ==
    Only({ Only({
        IF validDenominator = Zero THEN Zero
        ELSE RDiv(validNumerator, validDenominator)
    : validDenominator \in {getValidNumber(denominator)} })
    : validNumerator \in {getValidNumber(numerator)} })

\* a variant that returns the marked-up amount instead of the percentage of it
applyPercentage_inclusive(base, percentage) ==
    RAdd(getValidNumber(base),
         RDiv(RMul(getValidNumber(base), getValidNumber(percentage)),
              Int2Num(PERCENTAGE_DIVISOR)))

applyPercentage(base, percentage) ==
    RDiv(RMul(getValidNumber(base), getValidNumber(percentage)),
         Int2Num(PERCENTAGE_DIVISOR))

\* a variant that cuts the value after the second decimal
roundTo2Decimals_truncate(value) ==
    LET v == getValidNumber(value)
        whole == RFloor(v)
        fraction == Num(v.n % v.d, v.d)
    IN  RAdd(Int2Num(whole),
             Num(RFloor(RMul(fraction, Int2Num(100))), 100))

\* Math.round((v + Number.EPSILON) * 100) / 100: Math.round takes a half
\* towards +Infinity; EPSILON (2^-52) is below the resolution of the
\* rationals of the model and is dropped.
\* The whole part of the value is set aside while the fraction is scaled:
\* round(100 * (w + f)) = 100 * w + round(100 * f) for an integer w.
roundTo2Decimals(value) ==
    LET v == getValidNumber(value)
        whole == RFloor(v)
        fraction == Num(v.n % v.d, v.d)
    IN  RAdd(Int2Num(whole),
             Num(RFloor(RAdd(RMul(fraction, Int2Num(100)), Num(1, 2))), 100))

(***************************************************************************)
(* Calculator: parameter resolution                                        *)
(***************************************************************************)
\* a variant that spreads the user input after the system overrides
mergeParameters_inputLast(defaults, input, overrides) ==
    [rates |->
        Spread(Spread(defaults.rates, OrEmpty(Get(overrides, "rates"))),
               OrEmpty(Get(input, "rates"))),
     fabric |->
        Spread(Spread(defaults.fabric, OrEmpty(Get(overrides, "fabric"))),
               OrEmpty(Get(input, "fabric"))),
     genel_gider |->
        Spread(Spread(defaults.genel_gider, OrEmpty(Get(overrides, "genel_gider"))),
               OrEmpty(Get(input, "genel_gider"))),
     karlilik |->
        Spread(Spread(defaults.karlilik, OrEmpty(Get(overrides, "karlilik"))),
               OrEmpty(Get(input, "karlilik"))),
     KDV |->
        getValidNumber(Nullish(Get(input, "KDV"),
                               Nullish(Get(overrides, "KDV"), defaults.KDV))),
     komisyon |->
        getValidNumber(Nullish(Get(input, "komisyon"),
                               Nullish(Get(overrides, "komisyon"), defaults.komisyon))),
     operations |->
        Spread(Spread(defaults.operations, OrEmpty(Get(overrides, "operations"))),
               OrEmpty(Get(input, "operations"))),
     batch |->
        Spread(DEFAULT_BATCH, OrEmpty(Get(input, "batch")))]

\* defaults is the record the ODS parser returns; input and overrides are
\* objects that may lack any property.
\* a variant in which operations given by the user replace the default
\* operations as a whole
mergeParameters_replaceOperations(defaults, input, overrides) ==
    [rates |->
        Spread(Spread(defaults.rates, OrEmpty(Get(input, "rates"))),
               OrEmpty(Get(overrides, "rates"))),
     fabric |->
        Spread(Spread(defaults.fabric, OrEmpty(Get(input, "fabric"))),
               OrEmpty(Get(overrides, "fabric"))),
     genel_gider |->
        Spread(Spread(defaults.genel_gider, OrEmpty(Get(input, "genel_gider"))),
               OrEmpty(Get(overrides, "genel_gider"))),
     karlilik |->
        Spread(Spread(defaults.karlilik, OrEmpty(Get(input, "karlilik"))),
               OrEmpty(Get(overrides, "karlilik"))),
     KDV |->
        getValidNumber(Nullish(Get(input, "KDV"),
                               Nullish(Get(overrides, "KDV"), defaults.KDV))),
     komisyon |->
        getValidNumber(Nullish(Get(input, "komisyon"),
                               Nullish(Get(overrides, "komisyon"), defaults.komisyon))),
     operations |->
        Spread(IF "operations" \in DOMAIN input
               THEN OrEmpty(Get(input, "operations")) ELSE defaults.operations,
               OrEmpty(Get(overrides, "operations"))),
     batch |->
        Spread(DEFAULT_BATCH, OrEmpty(Get(input, "batch")))]

mergeParameters(defaults, input, overrides) ==
    [rates |->
        Spread(Spread(defaults.rates, OrEmpty(Get(input, "rates"))),
               OrEmpty(Get(overrides, "rates"))),
     fabric |->
        Spread(Spread(defaults.fabric, OrEmpty(Get(input, "fabric"))),
               OrEmpty(Get(overrides, "fabric"))),
     genel_gider |->
        Spread(Spread(defaults.genel_gider, OrEmpty(Get(input, "genel_gider"))),
               OrEmpty(Get(overrides, "genel_gider"))),
     karlilik |->
        Spread(Spread(defaults.karlilik, OrEmpty(Get(input, "karlilik"))),
               OrEmpty(Get(overrides, "karlilik"))),
     KDV |->
        getValidNumber(Nullish(Get(input, "KDV"),
                               Nullish(Get(overrides, "KDV"), defaults.KDV))),
     komisyon |->
        getValidNumber(Nullish(Get(input, "komisyon"),
                               Nullish(Get(overrides, "komisyon"), defaults.komisyon))),
     operations |->
        Spread(Spread(defaults.operations, OrEmpty(Get(input, "operations"))),
               OrEmpty(Get(overrides, "operations"))),
     batch |->
        Spread(DEFAULT_BATCH, OrEmpty(Get(input, "batch")))]

\* a fail-fast variant: the first violation found by the exchange-rate check
\* is the only one reported
validateCalculationParameters_failFast(params) ==
    LET badRates ==
            SelectSeq(SUPPORTED_CURRENCIES,
                      LAMBDA c : ~isValidPositiveNumber(Get(params.rates, c)))
        badBatch ==
            SelectSeq(BATCH_RANGES,
                      LAMBDA r : ~isValidBatchSize(Get(params.batch, r)))
    IN  IF badRates # <<>>
        THEN <<[msg |-> "Invalid exchange rate for", key |-> badRates[1],
                value |-> Get(params.rates, badRates[1])]>>
        ELSE IF ~isValidPercentage(params.KDV)
        THEN <<[msg |-> "Invalid KDV percentage", key |-> "KDV",
                value |-> params.KDV]>>
        ELSE IF ~isValidPercentage(params.komisyon)
        THEN <<[msg |-> "Invalid komisyon percentage", key |-> "komisyon",
                value |-> params.komisyon]>>
        ELSE IF badBatch # <<>>
        THEN <<[msg |-> "Invalid batch size for range", key |-> badBatch[1],
                value |-> Get(params.batch, badBatch[1])]>>
        ELSE <<>>

\* The errors array built by validateCalculationParameters, one entry per
\* errors.push; the method throws CalculationError iff it is not empty.
\* Object.entries(params.fabric) is taken in the order of FABRIC_FIELDS.
validateCalculationParameters(params) ==
    LET badRates ==
            SelectSeq(SUPPORTED_CURRENCIES,
                      LAMBDA c : ~isValidPositiveNumber(Get(params.rates, c)))
        rateErrors ==
            [i \in 1..Len(badRates) |->
                [msg |-> "Invalid exchange rate for", key |-> badRates[i],
                 value |-> Get(params.rates, badRates[i])]]
        badFabric ==
            SelectSeq(FABRIC_FIELDS,
                      LAMBDA k : /\ k \in DOMAIN params.fabric
                                 /\ ~IsNullish(params.fabric[k])
                                 /\ ~isValidPositiveNumber(params.fabric[k]))
        fabricErrors ==
            [i \in 1..Len(badFabric) |->
                [msg |-> "Invalid fabric price for", key |-> badFabric[i],
                 value |-> params.fabric[badFabric[i]]]]
        kdvErrors ==
            IF ~isValidPercentage(params.KDV)
            THEN <<[msg |-> "Invalid KDV percentage", key |-> "KDV",
                    value |-> params.KDV]>>
            ELSE <<>>
        komisyonErrors ==
            IF ~isValidPercentage(params.komisyon)
            THEN <<[msg |-> "Invalid komisyon percentage", key |-> "komisyon",
                    value |-> params.komisyon]>>
            ELSE <<>>
        badBatch ==
            SelectSeq(BATCH_RANGES,
                      LAMBDA r : ~isValidBatchSize(Get(params.batch, r)))
        batchErrors ==
            [i \in 1..Len(badBatch) |->
                [msg |-> "Invalid batch size for range", key |-> badBatch[i],
                 value |-> Get(params.batch, badBatch[i])]]
    IN  rateErrors \o fabricErrors \o kdvErrors \o komisyonErrors \o batchErrors

(***************************************************************************)
(* Calculator: range computation                                           *)
(***************************************************************************)
RECURSIVE SumOperations(_, _, _)
SumOperations(names, operations, range) ==
    IF names = {} THEN Zero
    ELSE LET k == CHOOSE x \in names : TRUE
         IN  RAdd(getValidNumber(Get(operations[k], range)),
                  SumOperations(names \ {k}, operations, range))

\* a variant that adds up the costs of every range
calculateOperationsCost_allRanges(range, operations) ==
    RAdd(SumOperations(DOMAIN operations, operations, "0-50"),
         RAdd(SumOperations(DOMAIN operations, operations, "51-100"),
              SumOperations(DOMAIN operations, operations, "101-200")))

calculateOperationsCost(range, operations) ==
    SumOperations(DOMAIN operations, operations, range)

\* a variant that adds the unit price and the base price
getFabricCost_summed(fabric) ==
    RAdd(getValidNumber(Get(fabric, "unit_eur")),
         getValidNumber(Get(fabric, "price_eur")))

\* a || b || 0 on numbers: the first operand that is not 0
getFabricCost(fabric) ==
    Only({ Only({
        IF unit # Zero THEN unit ELSE IF price # Zero THEN price ELSE Zero
    : price \in {getValidNumber(Get(fabric, "price_eur"))} })
    : unit \in {getValidNumber(Get(fabric, "unit_eur"))} })

\* the local constants of calculateForRange, before rounding
rangeLocals(range, params) ==
    Only({ Only({ Only({ Only({ Only({ Only({ Only({ Only({
    Only({ Only({ Only({ Only({ Only({ Only({ Only({ Only({
        [batchSize |-> batchSize,
         totalOpsTry |-> totalOpsTry,
         fabricCostEur |-> fabricCostEur,
         perUnitOpsTry |-> perUnitOpsTry,
         perUnitOpsEur |-> perUnitOpsEur,
         perUnitEur |-> perUnitEur,
         hamMaliyetEur |-> hamMaliyetEur,
         genelGiderEur |-> genelGiderEur,
         karEur |-> karEur,
         taxableEur |-> taxableEur,
         kdvEur |-> kdvEur,
         commissionEur |-> commissionEur,
         finalEur |-> finalEur,
         finalTry |-> finalTry,
         finalUsd |-> finalUsd,
         finalGbp |-> finalGbp,
         perUnitFinalEur |-> safeDivision(finalEur, batchSize),
         perUnitFinalTry |-> safeDivision(finalTry, batchSize),
         perUnitFinalUsd |-> safeDivision(finalUsd, batchSize),
         perUnitFinalGbp |-> safeDivision(finalGbp, batchSize)]
    : finalGbp \in {safeDivision(finalTry, Get(params.rates, "GBP"))} })
    : finalUsd \in {safeDivision(finalTry, Get(params.rates, "USD"))} })
    : finalTry \in {RMul(finalEur, Get(params.rates, "EUR"))} })
    : finalEur \in {RAdd(RAdd(taxableEur, kdvEur), commissionEur)} })
    : commissionEur \in {applyPercentage(taxableEur, params.komisyon)} })
    : kdvEur \in {applyPercentage(taxableEur, params.KDV)} })
    : taxableEur \in {RAdd(RAdd(hamMaliyetEur, genelGiderEur), karEur)} })
    : karEur \in {applyPercentage(hamMaliyetEur, Get(params.karlilik, range))} })
    : genelGiderEur \in {applyPercentage(hamMaliyetEur, Get(params.genel_gider, range))} })
    : hamMaliyetEur \in {RMul(perUnitEur, batchSize)} })
    : perUnitEur \in {RAdd(fabricCostEur, perUnitOpsEur)} })
    : fabricCostEur \in {getFabricCost(params.fabric)} })
    : perUnitOpsEur \in {safeDivision(perUnitOpsTry, Get(params.rates, "EUR"))} })
    : perUnitOpsTry \in {safeDivision(totalOpsTry, batchSize)} })
    : totalOpsTry \in {calculateOperationsCost(range, params.operations)} })
    : batchSize \in {Get(params.batch, range)} })

\* The object calculateForRange returns (its calculationDate, a wall-clock
\* stamp, is not part of the model).
calculateForRange(range, params) ==
    Only({
        [batchSize |-> v.batchSize,
         fabricCostEur |-> roundTo2Decimals(v.fabricCostEur),
         perUnitOpsTry |-> roundTo2Decimals(v.perUnitOpsTry),
         perUnitOpsEur |-> roundTo2Decimals(v.perUnitOpsEur),
         perUnitEur |-> roundTo2Decimals(v.perUnitEur),
         hamMaliyetEur |-> roundTo2Decimals(v.hamMaliyetEur),
         genelGiderEur |-> roundTo2Decimals(v.genelGiderEur),
         karEur |-> roundTo2Decimals(v.karEur),
         taxableEur |-> roundTo2Decimals(v.taxableEur),
         kdvEur |-> roundTo2Decimals(v.kdvEur),
         commissionEur |-> roundTo2Decimals(v.commissionEur),
         finalEur |-> roundTo2Decimals(v.finalEur),
         finalTry |-> roundTo2Decimals(v.finalTry),
         finalUsd |-> roundTo2Decimals(v.finalUsd),
         finalGbp |-> roundTo2Decimals(v.finalGbp),
         perUnitFinalEur |-> roundTo2Decimals(v.perUnitFinalEur),
         perUnitFinalTry |-> roundTo2Decimals(v.perUnitFinalTry),
         perUnitFinalUsd |-> roundTo2Decimals(v.perUnitFinalUsd),
         perUnitFinalGbp |-> roundTo2Decimals(v.perUnitFinalGbp),
         range |-> range]
    : v \in {rangeLocals(range, params)} })

\* a variant that computes the ranges the operations price instead of the
\* configured ranges
performCalculations_pricedRanges(params) ==
    [r \in UNION {DOMAIN params.operations[op] :
                     op \in {o \in DOMAIN params.operations :
                                "t" \notin DOMAIN params.operations[o]}} |->
        calculateForRange(r, params)]

\* calculateOperationsCost reads ranges[range] of every operation: a TypeError
\* when the value of an operation is null or undefined
calculateForRangeThrows(range, params) ==
    \E op \in DOMAIN params.operations :
        "t" \in DOMAIN params.operations[op] /\ IsNullish(params.operations[op])

\* what performCalculations throws: the error kind and, from its message,
\* the range and the kind of the error it wraps
Thrown(range) ==
    [t |-> "thrown", error |-> "CalculationError", range |-> range,
     cause |-> "TypeError",
     message |-> <<"Calculation failed for range ", range, ": ",
                   "Cannot read properties of null">>]

IsThrown(results) == "t" \in DOMAIN results

\* a variant that leaves out the ranges whose calculation throws
performCalculations_skipFailed(params) ==
    [r \in {x \in Ranges : ~calculateForRangeThrows(x, params)} |->
        calculateForRange(r, params)]

\* forEach over batchRanges: the first range whose calculation throws ends
\* the loop with a CalculationError that names the range
performCalculations(params) ==
    IF \E r \in Ranges : calculateForRangeThrows(r, params)
    THEN Thrown(BATCH_RANGES[
            CHOOSE i \in DOMAIN BATCH_RANGES :
                /\ calculateForRangeThrows(BATCH_RANGES[i], params)
                /\ \A j \in 1..(i - 1) :
                      ~calculateForRangeThrows(BATCH_RANGES[j], params)])
    ELSE [r \in Ranges |-> calculateForRange(r, params)]

(***************************************************************************)
(* OdsParser: extraction of the defaults from the sheet                    *)
(*                                                                         *)
(* rows is the sheet as a function from <<row, col>> to the cell's value:  *)
(* a number, [t |-> "str"] for text that is no number, or                  *)
(* [t |-> "name", s |-> ...] for the text of an operation-name cell; an    *)
(* empty cell is outside the DOMAIN or null.                               *)
(***************************************************************************)
RATES_START_ROW == 2
FABRIC_START_ROW == 2
GENEL_GIDER_START_ROW == 7
KARLILIK_START_ROW == 13
KDV_ROW == 18
KOMISYON_ROW == 19
OPERATIONS_START_ROW == 29
OPERATIONS_END_ROW == 35
COL_RATE_VALUES == 1
COL_FABRIC_VALUES == 4
COL_RANGE_0_50 == 1
COL_RANGE_51_100 == 2
COL_RANGE_101_200 == 3
COL_OPERATION_NAME == 0

DEFAULT_EXCHANGE_RATES ==
    [c \in {"EUR", "USD", "GBP"} |->
        IF c = "EUR" THEN Num(3799, 100)
        ELSE IF c = "USD" THEN Num(3399, 100) ELSE Num(4493, 100)]

safeValue(rows, row, col) ==
    IF <<row, col>> \notin DOMAIN rows \/ IsNullish(rows[<<row, col>>])
    THEN Null
    ELSE rows[<<row, col>>]

\* JavaScript truthiness of a cell value
Truthy(v) == ~IsNullish(v) /\ v # Zero

\* v || d
OrElse(v, d) == IF Truthy(v) THEN v ELSE d

\* v <= 0 of JavaScript: false when v is text that is no number
LeqZero(v) == IsNum(v) /\ RLeq(v, Zero)

extractRates(rows) ==
    LET cell == [c \in Currencies |->
                    safeValue(rows,
                              RATES_START_ROW + (CHOOSE i \in 0..2 :
                                                    SUPPORTED_CURRENCIES[i + 1] = c),
                              COL_RATE_VALUES)]
    IN  [c \in Currencies |->
            IF ~Truthy(cell[c]) \/ LeqZero(cell[c])
            THEN DEFAULT_EXCHANGE_RATES[c]
            ELSE cell[c]]

extractFabric(rows) ==
    [price_eur |-> OrElse(safeValue(rows, FABRIC_START_ROW, COL_FABRIC_VALUES), Zero),
     metre_eur |-> OrElse(safeValue(rows, FABRIC_START_ROW + 1, COL_FABRIC_VALUES), Zero),
     unit_eur |-> OrElse(safeValue(rows, FABRIC_START_ROW + 2, COL_FABRIC_VALUES), Zero)]

\* the column and the row offset of a range in the range tables
RangeColumn(r) ==
    IF r = "0-50" THEN COL_RANGE_0_50
    ELSE IF r = "51-100" THEN COL_RANGE_51_100 ELSE COL_RANGE_101_200

RangeIndex(r) == CHOOSE i \in 0..2 : BATCH_RANGES[i + 1] = r

extractGenelGider(rows) ==
    [r \in Ranges |->
        OrElse(safeValue(rows, GENEL_GIDER_START_ROW + RangeIndex(r), RangeColumn(r)),
               Zero)]

extractKarlilik(rows) ==
    [r \in Ranges |->
        OrElse(safeValue(rows, KARLILIK_START_ROW + RangeIndex(r), RangeColumn(r)),
               Zero)]

extractKDV(rows) == OrElse(safeValue(rows, KDV_ROW, COL_RATE_VALUES), Int2Num(20))

extractKomisyon(rows) == OrElse(safeValue(rows, KOMISYON_ROW, COL_RATE_VALUES), Int2Num(5))

\* a later row of the same name replaces an earlier one
extractOperations(rows) ==
    LET named == {i \in OPERATIONS_START_ROW..OPERATIONS_END_ROW :
                     safeValue(rows, i, COL_OPERATION_NAME).t = "name"}
        nameOf(i) == safeValue(rows, i, COL_OPERATION_NAME).s
        last(nm) == CHOOSE i \in named :
                       /\ nameOf(i) = nm
                       /\ \A j \in named : nameOf(j) = nm => j <= i
    IN  [nm \in {nameOf(i) : i \in named} |->
            [r \in Ranges |-> OrElse(safeValue(rows, last(nm), RangeColumn(r)), Zero)]]

extractDefaults(rows) ==
    [rates |-> extractRates(rows),
     fabric |-> extractFabric(rows),
     genel_gider |-> extractGenelGider(rows),
     karlilik |-> extractKarlilik(rows),
     KDV |-> extractKDV(rows),
     komisyon |-> extractKomisyon(rows),
     operations |-> extractOperations(rows)]

\* TRUE iff validateDefaults collects no error (it throws otherwise)
validateDefaults(defaults) ==
    /\ \A c \in Currencies :
          Truthy(defaults.rates[c]) /\ ~LeqZero(defaults.rates[c])
    /\ \A r \in Ranges :
          /\ Truthy(defaults.genel_gider[r]) \/ defaults.genel_gider[r] = Zero
          /\ Truthy(defaults.karlilik[r]) \/ defaults.karlilik[r] = Zero
    /\ IsNum(defaults.KDV) /\ ~RLt(defaults.KDV, Zero)
    /\ IsNum(defaults.komisyon) /\ ~RLt(defaults.komisyon, Zero)

(***************************************************************************)
(* Inputs of the model                                                     *)
(***************************************************************************)
\* an object from a set of <<name, value>> pairs
Obj(pairs) ==
    [k \in {p[1] : p \in pairs} |-> (CHOOSE p \in pairs : p[1] = k)[2]]

OperationName(s) == [t |-> "name", s |-> s]

\* a sheet with every cell the parser reads filled in
SheetFull ==
    Obj({<<<<2, 1>>, Int2Num(40)>>, <<<<3, 1>>, Int2Num(32)>>, <<<<4, 1>>, Int2Num(50)>>,
         <<<<2, 4>>, Int2Num(3)>>, <<<<3, 4>>, Int2Num(1)>>, <<<<4, 4>>, Int2Num(5)>>,
         <<<<7, 1>>, Int2Num(10)>>, <<<<8, 2>>, Int2Num(8)>>, <<<<9, 3>>, Int2Num(6)>>,
         <<<<13, 1>>, Int2Num(20)>>, <<<<14, 2>>, Int2Num(15)>>, <<<<15, 3>>, Int2Num(10)>>,
         <<<<18, 1>>, Int2Num(20)>>, <<<<19, 1>>, Int2Num(5)>>,
         <<<<29, 0>>, OperationName("kesim")>>,
         <<<<29, 1>>, Int2Num(50)>>, <<<<29, 2>>, Int2Num(100)>>, <<<<29, 3>>, Int2Num(200)>>,
         <<<<30, 0>>, OperationName("dikim")>>,
         <<<<30, 1>>, Int2Num(150)>>, <<<<30, 2>>, Int2Num(300)>>, <<<<30, 3>>, Int2Num(600)>>})

\* a sheet with the EUR rate, the unit price of the fabric, the overheads and
\* the KDV cell left empty, and one operation with a cost missing
SheetSparse ==
    Obj({<<<<3, 1>>, Int2Num(32)>>, <<<<4, 1>>, Int2Num(50)>>,
         <<<<2, 4>>, Int2Num(3)>>, <<<<4, 4>>, Null>>,
         <<<<13, 1>>, Int2Num(20)>>, <<<<14, 2>>, Int2Num(15)>>, <<<<15, 3>>, Int2Num(10)>>,
         <<<<19, 1>>, Int2Num(5)>>,
         <<<<31, 0>>, OperationName("utu")>>,
         <<<<31, 1>>, Int2Num(40)>>, <<<<31, 3>>, Int2Num(80)>>})

\* a sheet with no fabric cell and no operation
SheetNoFabric ==
    Obj({<<<<2, 1>>, Int2Num(40)>>, <<<<3, 1>>, Int2Num(32)>>, <<<<4, 1>>, Int2Num(50)>>,
         <<<<7, 1>>, Int2Num(10)>>, <<<<8, 2>>, Int2Num(8)>>, <<<<9, 3>>, Int2Num(6)>>,
         <<<<18, 1>>, Int2Num(18)>>, <<<<19, 1>>, Int2Num(3)>>})

Sheets == {SheetFull, SheetSparse, SheetNoFabric}

RatesOptions ==
    {Obj({<<"EUR", Zero>>}),
     Obj({<<"EUR", Int2Num(4)>>}),
     Obj({<<"USD", Zero>>, <<"GBP", Zero>>}),
     Obj({<<"EUR", Int2Num(5)>>, <<"USD", Int2Num(4)>>, <<"GBP", Int2Num(8)>>}),
     Obj({<<"USD", Num(1, 2000)>>})}

FabricOptions ==
    {Obj({<<"unit_eur", Zero>>}),
     Obj({<<"unit_eur", Int2Num(3)>>}),
     Obj({<<"unit_eur", Null>>, <<"price_eur", Int2Num(2)>>}),
     Obj({<<"metre_eur", Int2Num(-1)>>}),
     Obj({<<"unit_eur", Int2Num(-2)>>, <<"price_eur", Int2Num(4)>>})}

PercentRangeOptions ==
    {Obj({<<"0-50", Int2Num(10)>>}),
     Obj({<<"0-50", Int2Num(150)>>}),
     Obj({<<"51-100", Int2Num(-5)>>}),
     Obj({<<"101-200", Int2Num(-300)>>}),
     Obj({<<"0-50", Int2Num(20)>>, <<"51-100", Int2Num(10)>>, <<"101-200", Int2Num(50)>>})}

KDVOptions == {Int2Num(18), Int2Num(0), Int2Num(150)}

KomisyonOptions == {Int2Num(3), Int2Num(-1)}

OperationsOptions ==
    {Obj({<<"kesim", Obj({<<"0-50", Int2Num(30)>>, <<"51-100", Int2Num(60)>>})>>}),
     Obj({<<"nakis", Obj({<<"0-50", Int2Num(100)>>, <<"51-100", Int2Num(100)>>,
                          <<"101-200", Int2Num(200)>>})>>}),
     Obj({<<"dikim", EmptyObject>>}),
     Obj({<<"kesim", Obj({<<"0-50", Num(-200025, 8)>>})>>}),
     Obj({<<"nakis", Null>>})}

BatchOptions ==
    {Obj({<<"0-50", Int2Num(10)>>}),
     Obj({<<"0-50", Zero>>}),
     Obj({<<"51-100", Int2Num(10001)>>}),
     Obj({<<"0-50", Int2Num(150)>>}),
     Obj({<<"0-50", Int2Num(1)>>, <<"101-200", Int2Num(200)>>})}

FieldOptions(f) ==
    CASE f = "rates" -> RatesOptions
      [] f = "fabric" -> FabricOptions
      [] f = "genel_gider" -> PercentRangeOptions
      [] f = "karlilik" -> PercentRangeOptions
      [] f = "KDV" -> KDVOptions
      [] f = "komisyon" -> KomisyonOptions
      [] f = "operations" -> OperationsOptions
      [] f = "batch" -> BatchOptions

TopLevelFields ==
    {"rates", "fabric", "genel_gider", "karlilik", "KDV", "komisyon", "operations", "batch"}

\* the objects with one property
SingleFieldObjects ==
    UNION {{Obj({<<f, v>>}) : v \in FieldOptions(f)} : f \in TopLevelFields}

\* a request that breaks several rules at once
InputManyViolations ==
    Obj({<<"rates", Obj({<<"USD", Zero>>, <<"GBP", Zero>>})>>,
         <<"KDV", Int2Num(150)>>,
         <<"batch", Obj({<<"51-100", Int2Num(10001)>>})>>})

\* a request that sets every layer-sensitive field
InputAllFields ==
    Obj({<<"rates", Obj({<<"EUR", Int2Num(2)>>, <<"USD", Int2Num(1)>>})>>,
         <<"fabric", Obj({<<"unit_eur", Int2Num(1)>>})>>,
         <<"genel_gider", Obj({<<"0-50", Int2Num(5)>>})>>,
         <<"karlilik", Obj({<<"51-100", Int2Num(25)>>})>>,
         <<"KDV", Int2Num(10)>>,
         <<"komisyon", Int2Num(2)>>,
         <<"operations", Obj({<<"kesim", Obj({<<"0-50", Int2Num(20)>>})>>})>>,
         <<"batch", Obj({<<"0-50", Int2Num(5)>>, <<"51-100", Int2Num(60)>>})>>})

\* a map that gives every range the same value
AllRanges(v) == [r \in Ranges |-> v]

\* the request of scenario A: no operation cost, no overhead, no profit
InputScenarioA ==
    Obj({<<"rates", Obj({<<"EUR", Num(385, 10)>>, <<"USD", Num(342, 10)>>,
                         <<"GBP", Num(451, 10)>>})>>,
         <<"fabric", Obj({<<"unit_eur", Int2Num(5)>>})>>,
         <<"genel_gider", AllRanges(Zero)>>,
         <<"karlilik", AllRanges(Zero)>>,
         <<"KDV", Int2Num(18)>>,
         <<"komisyon", Int2Num(3)>>,
         <<"operations", Obj({<<"kesim", AllRanges(Zero)>>, <<"dikim", AllRanges(Zero)>>})>>,
         <<"batch", Obj({<<"0-50", Int2Num(25)>>})>>})

EngineInputs ==
    {EmptyObject, InputManyViolations, InputAllFields, InputScenarioA}
        \cup SingleFieldObjects

EngineDefaults == {extractDefaults(sh) : sh \in {x \in Sheets : validateDefaults(extractDefaults(x))}}

(***************************************************************************)
(* utils/cache.js: CacheManager over a Map from key to CacheEntry           *)
(* Time is counted in minutes, the unit of the expiration times.           *)
(***************************************************************************)
CACHE_EXPIRATION_ODS_DATA == 5
CACHE_EXPIRATION_CALCULATION_RESULTS == 2

\* an entry that expires a minute early
isExpired_inclusive(entry, t) == t - entry.createdAt >= entry.ttl

\* CacheEntry.isExpired at time t
isExpired(entry, t) == t - entry.createdAt > entry.ttl

\* the value CacheManager.get returns at time t (null on a miss or an expiry)
cacheGet(c, key, t) ==
    IF key \notin DOMAIN c \/ isExpired(c[key], t) THEN Null ELSE c[key].data

\* the Map after CacheManager.get: an expired entry is deleted
cacheAfterGet(c, key, t) ==
    IF key \in DOMAIN c /\ isExpired(c[key], t)
    THEN [k \in DOMAIN c \ {key} |-> c[k]]
    ELSE c

\* the Map after CacheManager.set at time t
cacheSet(c, key, data, ttl, t) ==
    [k \in DOMAIN c \cup {key} |->
        IF k = key THEN [data |-> data, createdAt |-> t, ttl |-> ttl] ELSE c[k]]

\* CACHE_KEYS: a key is <<name, hash>>, the hash empty for the fixed keys
KEY_ODS_DEFAULTS == <<"ods:defaults", EmptyObject>>
KEY_CALCULATION(inputHash) == <<"calculation", inputHash>>

(***************************************************************************)
(* Calculator.generateInputHash                                            *)
(*                                                                         *)
(* JSON.stringify(combined, keys) with an array replacer keeps, in every   *)
(* object at every depth, only the properties named in the array, here the *)
(* top-level property names of combined.  The JSON text (and its MD5,      *)
(* taken as injective) is modelled by the filtered object.                 *)
(***************************************************************************)
RECURSIVE stringifyFiltered(_, _)
stringifyFiltered(value, allowed) ==
    IF "t" \in DOMAIN value
    THEN value
    ELSE [k \in {x \in DOMAIN value \cap allowed : value[x] # Undefined} |->
            stringifyFiltered(value[k], allowed)]

generateInputHash(input, overrides) ==
    LET combined == Spread(input, overrides)
    IN  stringifyFiltered(combined, DOMAIN combined)

(***************************************************************************)
(* OdsParser.parseOdsDefaults on the file, the cache and lastModified      *)
(***************************************************************************)
\* a check that does not look at the modification time
isFileUnchanged_anyTime(file, lastModified) ==
    file.exists /\ lastModified # 0

\* file is [exists, rows, mtime]; lastModified is 0 for null
isFileUnchanged(file, lastModified) ==
    file.exists /\ lastModified # 0 /\ file.mtime = lastModified

\* [ok, value, error, fromCache, cache, lastModified]: the defaults returned
\* or the error thrown, whether the cache answered, and the cache and
\* lastModified the call leaves
parseOdsDefaults(c, file, lastModified, t) ==
    Only({ Only({
        IF cached # Null /\ isFileUnchanged(file, lastModified)
        THEN [ok |-> TRUE, value |-> cached, error |-> "", fromCache |-> TRUE,
              cache |-> c1, lastModified |-> lastModified]
        ELSE IF ~file.exists
        THEN [ok |-> FALSE, value |-> Null, error |-> "FileNotFoundError", fromCache |-> FALSE,
              cache |-> c1, lastModified |-> lastModified]
        ELSE Only({
            IF ~validateDefaults(defaults)
            THEN [ok |-> FALSE, value |-> Null, error |-> "FileParseError", fromCache |-> FALSE,
                  cache |-> c1, lastModified |-> lastModified]
            ELSE [ok |-> TRUE, value |-> defaults, error |-> "", fromCache |-> FALSE,
                  cache |-> cacheSet(c1, KEY_ODS_DEFAULTS, defaults,
                                     CACHE_EXPIRATION_ODS_DATA, t),
                  lastModified |-> file.mtime]
        : defaults \in {extractDefaults(file.rows)} })
    : c1 \in {cacheAfterGet(c, KEY_ODS_DEFAULTS, t)} })
    : cached \in {cacheGet(c, KEY_ODS_DEFAULTS, t)} })

(***************************************************************************)
(* Calculator.calculateFromInput                                           *)
(***************************************************************************)
\* the message of the error parseOdsDefaults throws: the text of the error
\* class and the path of the file
ProviderMessage(error) ==
    IF error = "FileNotFoundError"
    THEN <<"File not found: ", "odsPath">>
    ELSE <<"Failed to parse file: ", "odsPath">>

\* The outcome of one call at time t: what it returns or throws and the
\* cache and lastModified it leaves.  ranges is the set of ranges for which
\* calculateForRange ran, stored says whether setCalculationResult ran.
\* Every error leaves calculateFromInput as a CalculationError; cause names
\* what raised it and message is its text, part by part as the code
\* concatenates it.  The output { ...params, result, metadata } keeps the
\* resolved parameters under params; metadata.version, a fixed text, is left
\* out.
calculateFromInput(input, overrides, c, file, lastModified, t) ==
    Only({ Only({ Only({
        IF cached # Null
        THEN [outcome |-> "ok", output |-> cached, fromCache |-> TRUE,
              error |-> "", cause |-> "", errors |-> <<>>, message |-> <<>>,
              ranges |-> {}, stored |-> FALSE,
              cache |-> c1, lastModified |-> lastModified]
        ELSE Only({
        IF ~parsed.ok
        THEN [outcome |-> "error", output |-> Null, fromCache |-> FALSE,
              error |-> "CalculationError", cause |-> parsed.error, errors |-> <<>>,
              message |-> <<"Calculation failed: ">> \o ProviderMessage(parsed.error),
              ranges |-> {}, stored |-> FALSE,
              cache |-> parsed.cache, lastModified |-> parsed.lastModified]
        ELSE Only({ Only({
        IF errors # <<>>
        THEN [outcome |-> "error", output |-> Null, fromCache |-> FALSE,
              error |-> "CalculationError", cause |-> "validation", errors |-> errors,
              message |-> <<"Parameter validation failed: ">>
                              \o [i \in DOMAIN errors |-> errors[i].msg],
              ranges |-> {}, stored |-> FALSE,
              cache |-> parsed.cache, lastModified |-> parsed.lastModified]
        ELSE Only({
        IF IsThrown(results)
        THEN [outcome |-> "error", output |-> Null, fromCache |-> FALSE,
              error |-> results.error, cause |-> "range", errors |-> <<>>,
              message |-> results.message,
              ranges |-> {}, stored |-> FALSE,
              cache |-> parsed.cache, lastModified |-> parsed.lastModified]
        ELSE Only({
             [outcome |-> "ok", output |-> output, fromCache |-> FALSE,
              error |-> "", cause |-> "", errors |-> <<>>, message |-> <<>>,
              ranges |-> DOMAIN results, stored |-> TRUE,
              cache |-> cacheSet(parsed.cache, KEY_CALCULATION(inputHash), output,
                                 CACHE_EXPIRATION_CALCULATION_RESULTS, t),
              lastModified |-> parsed.lastModified]
        : output \in {[params |-> params,
                       result |-> results,
                       metadata |-> [calculatedAt |-> t, inputHash |-> inputHash]]} })
        : results \in {performCalculations(params)} })
        : errors \in {validateCalculationParameters(params)} })
        : params \in {mergeParameters(parsed.value, input, overrides)} })
        : parsed \in {parseOdsDefaults(c1, file, lastModified, t)} })
    : c1 \in {cacheAfterGet(c, KEY_CALCULATION(inputHash), t)} })
    : cached \in {cacheGet(c, KEY_CALCULATION(inputHash), t)} })
    : inputHash \in {generateInputHash(input, overrides)} })

(***************************************************************************)
(* The service: the ODS file, the cache, the clock and the calls           *)
(***************************************************************************)
MaxTime == 3
MaxEdits == 1
MaxCalls == 2

ServiceInputs ==
    {EmptyObject,
     Obj({<<"rates", Obj({<<"EUR", Int2Num(4)>>})>>}),
     Obj({<<"rates", Obj({<<"EUR", Zero>>})>>}),
     Obj({<<"KDV", Int2Num(18)>>}),
     Obj({<<"operations", Obj({<<"nakis", Null>>})>>})}

ServiceOverrides ==
    {EmptyObject,
     Obj({<<"KDV", Int2Num(8)>>})}

\* the file's contents: the sheets, and one whose KDV cell is text
SheetBadKDV == Obj({<<<<18, 1>>, NaNString>>})

\* the full sheet with another EUR rate and another KDV
SheetRepriced ==
    Spread(SheetFull, Obj({<<<<2, 1>>, Int2Num(42)>>, <<<<18, 1>>, Int2Num(18)>>}))

ServiceSheets == {SheetFull, SheetRepriced, SheetNoFabric, SheetBadKDV}

\* odsFile: the file on disk; cache: the CacheManager's Map; lastModified:
\* OdsParser.lastModified (0 for null); now: the clock; call: the last call of
\* calculateFromInput with its outcome; calls, edits: how many calls and
\* file changes have happened.  origin and call.defaultsNow, call.served are
\* history: the input and overrides of the call that stored each calculation
\* entry, the defaults the file held when the call ran, and the origin of the
\* entry a call was answered from.
VARIABLES odsFile, cache, lastModified, now, call, calls, edits, origin

serviceVars == <<odsFile, cache, lastModified, now, call, calls, edits, origin>>

NoCall ==
    [outcome |-> "none", input |-> EmptyObject, overrides |-> EmptyObject,
     output |-> Null, fromCache |-> FALSE, error |-> "", cause |-> "",
     errors |-> <<>>, message |-> <<>>, ranges |-> {}, stored |-> FALSE,
     defaultsNow |-> Null, served |-> Null]

ServiceInit ==
    /\ odsFile = [exists |-> TRUE, rows |-> SheetFull, mtime |-> 1]
    /\ cache = EmptyObject
    /\ lastModified = 0
    /\ now = 0
    /\ call = NoCall
    /\ calls = 0
    /\ edits = 0
    /\ origin = EmptyObject

Calculate(input, overrides) ==
    /\ calls < MaxCalls
    /\ \E res \in {calculateFromInput(input, overrides, cache, odsFile, lastModified, now)},
          hash \in {generateInputHash(input, overrides)},
          self \in {[input |-> input, overrides |-> overrides]} :
        /\ calls' = calls + 1
        /\ cache' = res.cache
        /\ lastModified' = res.lastModified
        /\ origin' = IF res.stored
                     THEN [h \in DOMAIN origin \cup {hash} |->
                              IF h = hash THEN self ELSE origin[h]]
                     ELSE origin
        /\ call' = [outcome |-> res.outcome, input |-> input, overrides |-> overrides,
                    output |-> res.output, fromCache |-> res.fromCache,
                    error |-> res.error, cause |-> res.cause, errors |-> res.errors,
                    message |-> res.message,
                    ranges |-> res.ranges, stored |-> res.stored,
                    defaultsNow |-> IF odsFile.exists
                                    THEN extractDefaults(odsFile.rows) ELSE Null,
                    served |-> IF res.fromCache THEN origin[hash]
                               ELSE IF res.stored THEN self ELSE Null]
        /\ UNCHANGED <<odsFile, now, edits>>

\* the file is rewritten: new contents, a later modification time
ModifyOdsFile(rows) ==
    /\ edits < MaxEdits
    /\ edits' = edits + 1
    /\ odsFile' = [exists |-> TRUE, rows |-> rows, mtime |-> odsFile.mtime + 1]
    /\ UNCHANGED <<cache, lastModified, now, call, calls, origin>>

\* the file is deleted
RemoveOdsFile ==
    /\ edits < MaxEdits
    /\ odsFile.exists
    /\ edits' = edits + 1
    /\ odsFile' = [odsFile EXCEPT !.exists = FALSE]
    /\ UNCHANGED <<cache, lastModified, now, call, calls, origin>>

Tick ==
    /\ now < MaxTime
    /\ now' = now + 1
    /\ UNCHANGED <<odsFile, cache, lastModified, call, calls, edits, origin>>

(***************************************************************************)
(* The HTTP layer: validateBody, the calculate route and errorHandler      *)
(***************************************************************************)
HTTP_STATUS_OK == 200
HTTP_STATUS_BAD_REQUEST == 400
HTTP_STATUS_UNPROCESSABLE_ENTITY == 422
HTTP_STATUS_INTERNAL_SERVER_ERROR == 500

\* utils/errors.js: an error with its class name, status code, operational
\* flag and message; isAppError is instanceof AppError
AppError(message, statusCode, isOperational) ==
    [name |-> "AppError", statusCode |-> statusCode, isOperational |-> isOperational,
     isAppError |-> TRUE, message |-> message, details |-> Null]

ValidationError(message, details) ==
    [name |-> "ValidationError", statusCode |-> HTTP_STATUS_BAD_REQUEST,
     isOperational |-> TRUE, isAppError |-> TRUE, message |-> message,
     details |-> details]

CalculationError(message) ==
    [name |-> "CalculationError", statusCode |-> HTTP_STATUS_UNPROCESSABLE_ENTITY,
     isOperational |-> TRUE, isAppError |-> TRUE, message |-> message,
     details |-> Null]

IsObject(v) == "t" \notin DOMAIN v
IsUndefined(v) == "t" \in DOMAIN v /\ v.t = "undefined"

\* Joi.number().positive().min(MIN_POSITIVE_NUMBER)
JoiPositive(v) ==
    "t" \in DOMAIN v /\ IsNum(v) /\ RLt(Zero, v) /\ RLeq(MIN_POSITIVE_NUMBER, v)

\* Joi.number().min(lo).max(hi)
JoiBetween(v, lo, hi) ==
    "t" \in DOMAIN v /\ IsNum(v) /\ RLeq(Int2Num(lo), v) /\ RLeq(v, Int2Num(hi))

\* Joi.number().min(0)
JoiAtLeastZero(v) == "t" \in DOMAIN v /\ IsNum(v) /\ RLeq(Zero, v)

\* Joi.object of optional keys: an object whose known keys, where present,
\* hold a passing value (null is no number and no object)
currencySchema(v) ==
    IsObject(v) /\ \A k \in DOMAIN v \cap Currencies :
                      IsUndefined(v[k]) \/ JoiPositive(v[k])

fabricSchema(v) ==
    IsObject(v) /\ \A k \in DOMAIN v \cap {"unit_eur", "price_eur", "metre_eur"} :
                      IsUndefined(v[k]) \/ JoiPositive(v[k])

\* .min(1): at least one key
rangeSchema(v) ==
    /\ IsObject(v)
    /\ DOMAIN v # {}
    /\ \A k \in DOMAIN v \cap Ranges : IsUndefined(v[k]) \/ JoiAtLeastZero(v[k])

percentageSchema(v) == JoiBetween(v, MIN_PERCENTAGE, MAX_PERCENTAGE)

operationsSchema(v) == IsObject(v) /\ \A op \in DOMAIN v : rangeSchema(v[op])

batchSchema(v) ==
    IsObject(v) /\ \A k \in DOMAIN v \cap Ranges :
                      IsUndefined(v[k]) \/ JoiBetween(v[k], MIN_BATCH_SIZE, MAX_BATCH_SIZE)

TopLevelFieldSchema(f, v) ==
    CASE f = "rates" -> currencySchema(v)
      [] f = "fabric" -> fabricSchema(v)
      [] f \in {"genel_gider", "karlilik"} -> rangeSchema(v)
      [] f \in {"KDV", "komisyon"} -> percentageSchema(v)
      [] f = "operations" -> operationsSchema(v)
      [] f = "batch" -> batchSchema(v)

\* calculateSchema: the top-level fields whose value fails its schema
calculateSchema(body) ==
    {f \in DOMAIN body \cap TopLevelFields :
        ~IsUndefined(body[f]) /\ ~TopLevelFieldSchema(f, body[f])}

Restrict(obj, keys) == [k \in DOMAIN obj \cap keys |-> obj[k]]

\* stripUnknown: the value Joi hands back keeps the keys the schema names
stripUnknown(body) ==
    [f \in DOMAIN body \cap TopLevelFields |->
        CASE f = "rates" -> Restrict(body[f], Currencies)
          [] f = "fabric" -> Restrict(body[f], {"unit_eur", "price_eur", "metre_eur"})
          [] f \in {"genel_gider", "karlilik", "batch"} -> Restrict(body[f], Ranges)
          [] f = "operations" ->
                [op \in DOMAIN body[f] |-> Restrict(body[f][op], Ranges)]
          [] OTHER -> body[f]]

\* formatErrorResponse and res.status(...).json(...): the status and the
\* error object of the body; stack says whether error.stack is included
formatErrorResponse(error, includeStack) ==
    [status |-> error.statusCode, success |-> FALSE, name |-> error.name,
     message |-> error.message,
     details |-> IF error.name = "ValidationError" THEN error.details ELSE Null,
     stack |-> includeStack, data |-> Null]

\* errorHandler for a response not yet sent.  An error that is no AppError
\* becomes one: status 400 for the name ValidationError, else (the branches
\* on the names and codes of token, file and body-parser errors, which the
\* calculate route does not raise, are left out) status 500 with a generic
\* message in production.
errorHandler(error, env) ==
    Only({
        formatErrorResponse(appError,
                            env = "development" /\ ~appError.isOperational)
    : appError \in {
        IF error.isAppError THEN error
        ELSE IF error.name = "ValidationError"
        THEN AppError(error.message, HTTP_STATUS_BAD_REQUEST, TRUE)
        ELSE AppError(IF env = "production" THEN <<"Internal server error">>
                                            ELSE error.message,
                      HTTP_STATUS_INTERNAL_SERVER_ERROR, FALSE)} })

\* NODE_ENV
NodeEnvs == {"production", "development", "test"}

\* request bodies of POST /api/calculate
HttpBodies ==
    {EmptyObject,
     Obj({<<"KDV", Int2Num(18)>>}),
     Obj({<<"KDV", Int2Num(18)>>, <<"currency", NaNString>>}),
     Obj({<<"KDV", Int2Num(150)>>}),
     Obj({<<"rates", Obj({<<"EUR", Zero>>})>>}),
     Obj({<<"operations", Obj({<<"nakis", Null>>})>>})}

\* nodeEnv: config.env; response: the last response of POST /api/calculate
VARIABLES nodeEnv, response

httpVars == <<nodeEnv, response>>

NoResponse ==
    [status |-> 0, success |-> FALSE, name |-> "", message |-> <<>>,
     details |-> Null, stack |-> FALSE, data |-> Null]

HttpIdle == nodeEnv = "production" /\ response = NoResponse

\* POST /api/calculate: validateBody(calculateSchema), then the handler
\* calls calculateFromInput(req.validatedBody) and answers 200; an error of
\* either goes to errorHandler
HttpCalculate(body) ==
    /\ \/ /\ calculateSchema(body) # {}
          /\ response' = errorHandler(ValidationError(<<"Request validation failed">>,
                                                      calculateSchema(body)),
                                      nodeEnv)
          /\ UNCHANGED <<odsFile, cache, lastModified, now, call, calls, edits, origin>>
       \/ /\ calculateSchema(body) = {}
          /\ Calculate(stripUnknown(body), EmptyObject)
          /\ response' =
                IF call'.outcome = "ok"
                THEN [status |-> HTTP_STATUS_OK, success |-> TRUE, name |-> "",
                      message |-> <<>>, details |-> Null, stack |-> FALSE,
                      data |-> call'.output]
                ELSE errorHandler(CalculationError(call'.message), nodeEnv)
    /\ UNCHANGED nodeEnv

(***************************************************************************)
(* ExchangeRateService: getCurrentRates, fetchRatesWithRetry and           *)
(* parseApiResponse                                                        *)
(*                                                                         *)
(* A JavaScript array is [t |-> "array", items |-> <<...>>]; the currency  *)
(* of an item is a string, "" when the item has none.                      *)
(***************************************************************************)
CACHE_EXPIRATION_EXCHANGE_RATES == 15
KEY_EXCHANGE_RATES == <<"exchange:rates", EmptyObject>>
maxRetries == 3
retryDelay == 1000

getDefaultRates == DEFAULT_EXCHANGE_RATES

\* JavaScript truthiness of a value that may be an object or an array
TruthyValue(v) == IsObject(v) \/ v.t = "array" \/ Truthy(v)

\* the properties of source copied when truthy and typeof 'number'
copyNumbers(source) ==
    IF IsObject(source)
    THEN [c \in {x \in Currencies : Truthy(Get(source, x)) /\ IsNum(Get(source, x))} |->
            source[c]]
    ELSE EmptyObject

\* data.data.forEach: rates[item.currency] = item.rate, in the order of the
\* array, for the items with a currency and a numeric rate
RECURSIVE collectItems(_, _)
collectItems(items, rates) ==
    IF items = <<>> THEN rates
    ELSE collectItems(Tail(items),
                      IF Head(items).currency # "" /\ IsNum(Head(items).rate)
                      THEN Spread(rates, Obj({<<Head(items).currency, Head(items).rate>>}))
                      ELSE rates)

\* the rates gathered from one of the three response formats
gatherRates(data) ==
    IF TruthyValue(Get(data, "rates")) THEN copyNumbers(data.rates)
    ELSE IF TruthyValue(Get(data, "data"))
    THEN IF IsObject(data.data) \/ data.data.t # "array" THEN EmptyObject
         ELSE collectItems(data.data.items, EmptyObject)
    ELSE copyNumbers(data)

\* the supported currencies with no rate or a rate that is not above 0
missingCurrencies(rates) ==
    {c \in Currencies : ~Truthy(Get(rates, c)) \/ LeqZero(Get(rates, c))}

\* a variant that returns the gathered rates as they are
fillMissing_none(rates) == rates

\* missingCurrencies.forEach(currency => rates[currency] = defaults[currency])
fillMissing(rates) ==
    [c \in DOMAIN rates \cup Currencies |->
        IF c \in missingCurrencies(rates) THEN getDefaultRates[c] ELSE rates[c]]

\* parseApiResponse: [ok, rates] or the error it throws: Error for data that
\* is no object, TypeError for an array item that is null
parseApiResponse(data) ==
    IF ~IsObject(data)
    THEN [ok |-> FALSE, rates |-> Null, error |-> "Error"]
    ELSE IF /\ ~TruthyValue(Get(data, "rates"))
            /\ TruthyValue(Get(data, "data"))
            /\ ~IsObject(data.data)
            /\ data.data.t = "array"
            /\ \E i \in DOMAIN data.data.items : data.data.items[i] = Null
    THEN [ok |-> FALSE, rates |-> Null, error |-> "TypeError"]
    ELSE [ok |-> TRUE, rates |-> fillMissing(gatherRates(data)), error |-> ""]

Item(currency, rate) == [currency |-> currency, rate |-> rate]
Array(items) == [t |-> "array", items |-> items]

\* bodies the exchange rate API may answer with
ApiData ==
    {Null,
     NaNString,
     Obj({<<"rates", Obj({<<"EUR", Int2Num(38)>>, <<"USD", Int2Num(34)>>,
                          <<"GBP", Int2Num(45)>>})>>}),
     Obj({<<"rates", Obj({<<"EUR", Int2Num(38)>>, <<"USD", Zero>>,
                          <<"GBP", Int2Num(-2)>>})>>}),
     Obj({<<"rates", Obj({<<"EUR", NaNString>>})>>}),
     Obj({<<"data", Array(<<Item("EUR", Int2Num(39)), Item("USD", Int2Num(-1)),
                            Item("JPY", Num(1, 4)), Item("", Int2Num(7)),
                            Item("GBP", NaNString)>>)>>}),
     Obj({<<"data", Array(<<Item("EUR", Int2Num(39)), Null>>)>>}),
     Obj({<<"data", NaNString>>}),
     Obj({<<"EUR", Int2Num(37)>>, <<"USD", Int2Num(33)>>}),
     Obj({<<"GBP", Int2Num(-44)>>}),
     EmptyObject}

\* what axios.get ends in: a response body, or an error with its code and
\* the status of its response (0: no response)
ApiOutcomes ==
    {[kind |-> "response", data |-> d, code |-> "", status |-> 0] : d \in ApiData}
        \cup {[kind |-> "error", data |-> Null, code |-> "ECONNABORTED", status |-> 0],
              [kind |-> "error", data |-> Null, code |-> "ERR_BAD_RESPONSE", status |-> 500],
              [kind |-> "error", data |-> Null, code |-> "ENOTFOUND", status |-> 0]}

MaxRateCalls == 3

\* xApiKey: whether config.exchangeApiKey is set; xPc: where the call of
\* getCurrentRates is; xAttempt: the loop variable of fetchRatesWithRetry;
\* xAttempts: the requests the call has made; xSleeps: the delays it has
\* slept; xLastError: lastError; xRaised: what fetchRatesWithRetry threw;
\* xRates, xSource: what getCurrentRates returned and from where; xCalls: the
\* calls so far
VARIABLES xApiKey, xPc, xAttempt, xAttempts, xSleeps, xLastError, xRaised,
          xRates, xSource, xCalls

rateVars ==
    <<xApiKey, xPc, xAttempt, xAttempts, xSleeps, xLastError, xRaised,
      xRates, xSource, xCalls>>

NoError == [code |-> "", status |-> 0, name |-> ""]

RatesIdle ==
    /\ xApiKey = FALSE
    /\ xPc = "idle"
    /\ xAttempt = 0
    /\ xAttempts = 0
    /\ xSleeps = <<>>
    /\ xLastError = NoError
    /\ xRaised = ""
    /\ xRates = Null
    /\ xSource = ""
    /\ xCalls = 0

\* getCurrentRates up to the call of fetchRatesWithRetry
GetCurrentRates ==
    /\ xPc \in {"idle", "returned"}
    /\ xCalls < MaxRateCalls
    /\ xCalls' = xCalls + 1
    /\ cache' = cacheAfterGet(cache, KEY_EXCHANGE_RATES, now)
    /\ xAttempts' = 0
    /\ xSleeps' = <<>>
    /\ xLastError' = NoError
    /\ xRaised' = ""
    /\ IF cacheGet(cache, KEY_EXCHANGE_RATES, now) # Null
       THEN /\ xRates' = cacheGet(cache, KEY_EXCHANGE_RATES, now)
            /\ xSource' = "cache"
            /\ xPc' = "returned"
            /\ xAttempt' = 0
       ELSE IF ~xApiKey
       THEN /\ xRates' = getDefaultRates
            /\ xSource' = "defaults"
            /\ xPc' = "returned"
            /\ xAttempt' = 0
       ELSE /\ xRates' = Null
            /\ xSource' = ""
            /\ xPc' = "fetching"
            /\ xAttempt' = 1
    /\ UNCHANGED <<xApiKey, odsFile, lastModified, now, call, calls, edits, origin>>

\* the error fetchRatesWithRetry throws after the loop
raisedFor(error) ==
    IF error.code = "ECONNABORTED" THEN "TimeoutError" ELSE "ExternalApiError"

\* a delay that does not grow with the attempt
delay_constant(attempt) == retryDelay

\* the delay slept after a failed attempt that is not the last
delay(attempt) == retryDelay * attempt

\* one pass of the loop of fetchRatesWithRetry: the request and the parsing
\* of its answer; a success returns through getCurrentRates, which stores
\* the rates; a failure sleeps before the next attempt or, after the last
\* one, throws into the catch of getCurrentRates, which returns the defaults
ApiAttempt(outcome) ==
    /\ xPc = "fetching"
    /\ xAttempts' = xAttempts + 1
    /\ \E parsed \in {IF outcome.kind = "response" THEN parseApiResponse(outcome.data)
                      ELSE [ok |-> FALSE, rates |-> Null, error |-> "AxiosError"]} :
        IF parsed.ok
        THEN /\ xRates' = parsed.rates
             /\ xSource' = "api"
             /\ xPc' = "returned"
             /\ cache' = cacheSet(cache, KEY_EXCHANGE_RATES, parsed.rates,
                                  CACHE_EXPIRATION_EXCHANGE_RATES, now)
             /\ UNCHANGED <<xAttempt, xSleeps, xLastError, xRaised>>
        ELSE /\ xLastError' = [code |-> outcome.code, status |-> outcome.status,
                               name |-> parsed.error]
             /\ IF xAttempt < maxRetries
                THEN /\ xSleeps' = Append(xSleeps, delay(xAttempt))
                     /\ xPc' = "sleeping"
                     /\ UNCHANGED <<xRates, xSource, xRaised>>
                ELSE /\ xRaised' = raisedFor(xLastError')
                     /\ xRates' = getDefaultRates
                     /\ xSource' = "fallback"
                     /\ xPc' = "returned"
                     /\ UNCHANGED xSleeps
             /\ UNCHANGED <<xAttempt, cache>>
    /\ UNCHANGED <<xApiKey, xCalls, odsFile, lastModified, now, call, calls, edits, origin>>

\* the sleep is over: attempt++
SleepDone ==
    /\ xPc = "sleeping"
    /\ xAttempt' = xAttempt + 1
    /\ xPc' = "fetching"
    /\ UNCHANGED <<xApiKey, xAttempts, xSleeps, xLastError, xRaised, xRates,
                   xSource, xCalls>>
    /\ UNCHANGED serviceVars

(***************************************************************************)
(* CacheManager on its own: set, get and has on the three kinds of key,    *)
(* with the expiration time cacheHelpers gives each of them                *)
(***************************************************************************)
MaxCacheTime == 16
MaxCacheOps == 3

\* CacheManager.has at time t
cacheHas(c, key, t) == key \in DOMAIN c /\ ~isExpired(c[key], t)

CacheKeys == {KEY_ODS_DEFAULTS, KEY_EXCHANGE_RATES, KEY_CALCULATION(EmptyObject)}

\* the ttl cacheHelpers.setOdsDefaults, setExchangeRates and
\* setCalculationResult pass to CacheManager.set
ttlOf(key) ==
    IF key = KEY_ODS_DEFAULTS THEN CACHE_EXPIRATION_ODS_DATA
    ELSE IF key = KEY_EXCHANGE_RATES THEN CACHE_EXPIRATION_EXCHANGE_RATES
    ELSE CACHE_EXPIRATION_CALCULATION_RESULTS

\* kStats: CacheManager.stats; kLast: the last operation and what it
\* returned; kOps: the operations so far.  kStored is history: for each key,
\* when it was last set and with which data.
VARIABLES kStats, kLast, kStored, kOps

cacheVars == <<kStats, kLast, kStored, kOps>>

NoOp == [op |-> "none", key |-> <<>>, result |-> Null]

CacheIdle ==
    /\ kStats = [hits |-> 0, misses |-> 0, sets |-> 0]
    /\ kLast = NoOp
    /\ kStored = EmptyObject
    /\ kOps = 0

\* CacheManager.set(key, data, ttl); the data is the number of the set
CacheSet(key) ==
    /\ kOps < MaxCacheOps
    /\ kOps' = kOps + 1
    /\ \E data \in {[t |-> "data", v |-> kStats.sets + 1]} :
        /\ cache' = cacheSet(cache, key, data, ttlOf(key), now)
        /\ kStored' = [k \in DOMAIN kStored \cup {key} |->
                          IF k = key THEN [at |-> now, data |-> data] ELSE kStored[k]]
    /\ kStats' = [kStats EXCEPT !.sets = @ + 1]
    /\ kLast' = [op |-> "set", key |-> key, result |-> Null]
    /\ UNCHANGED <<odsFile, lastModified, now, call, calls, edits, origin>>

\* CacheManager.get(key)
CacheGet(key) ==
    /\ kOps < MaxCacheOps
    /\ kOps' = kOps + 1
    /\ cache' = cacheAfterGet(cache, key, now)
    /\ kStats' = IF cacheGet(cache, key, now) = Null
                 THEN [kStats EXCEPT !.misses = @ + 1]
                 ELSE [kStats EXCEPT !.hits = @ + 1]
    /\ kLast' = [op |-> "get", key |-> key, result |-> cacheGet(cache, key, now)]
    /\ UNCHANGED <<kStored, odsFile, lastModified, now, call, calls, edits, origin>>

\* CacheManager.has(key): an expired entry is deleted, nothing is counted
CacheHas(key) ==
    /\ kOps < MaxCacheOps
    /\ kOps' = kOps + 1
    /\ cache' = cacheAfterGet(cache, key, now)
    /\ kLast' = [op |-> "has", key |-> key, result |-> cacheHas(cache, key, now)]
    /\ UNCHANGED <<kStats, kStored, odsFile, lastModified, now, call, calls, edits, origin>>

\* a minute passes
CacheTick ==
    /\ now < MaxCacheTime
    /\ now' = now + 1
    /\ UNCHANGED <<cacheVars, odsFile, cache, lastModified, call, calls, edits, origin>>

(***************************************************************************)
(* OdsParser on its own: calls of parseOdsDefaults while the file changes  *)
(* and time passes                                                         *)
(***************************************************************************)
MaxParserTime == 6
MaxParserCalls == 3

\* pLast: what the last call of parseOdsDefaults returned or threw, and
\* whether it was answered from the cache; pCalls: the calls so far.
\* pDirty is history: the file has changed since it was last read with
\* success (or has never been read).
VARIABLES pLast, pCalls, pDirty

parserVars == <<pLast, pCalls, pDirty>>

NoParse == [ok |-> FALSE, value |-> Null, error |-> "", fromCache |-> FALSE]

ParserIdle ==
    /\ pLast = NoParse
    /\ pCalls = 0
    /\ pDirty = TRUE

\* one call of parseOdsDefaults
ParseOdsDefaults ==
    /\ pCalls < MaxParserCalls
    /\ pCalls' = pCalls + 1
    /\ \E res \in {parseOdsDefaults(cache, odsFile, lastModified, now)} :
        /\ cache' = res.cache
        /\ lastModified' = res.lastModified
        /\ pLast' = [ok |-> res.ok, value |-> res.value, error |-> res.error,
                     fromCache |-> res.fromCache]
        /\ pDirty' = IF res.ok /\ ~res.fromCache THEN FALSE ELSE pDirty
    /\ UNCHANGED <<odsFile, now, call, calls, edits, origin>>

\* the file is rewritten or deleted between two calls
ParserFileModified ==
    /\ \E rows \in ServiceSheets : ModifyOdsFile(rows)
    /\ pDirty' = TRUE
    /\ UNCHANGED <<pLast, pCalls>>

ParserFileRemoved ==
    /\ RemoveOdsFile
    /\ pDirty' = TRUE
    /\ UNCHANGED <<pLast, pCalls>>

\* a minute passes
ParserTick ==
    /\ now < MaxParserTime
    /\ now' = now + 1
    /\ UNCHANGED <<parserVars, odsFile, cache, lastModified, call, calls, edits, origin>>

(***************************************************************************)
(* requestTimeout: the timer of a request against its route handler        *)
(***************************************************************************)
HTTP_STATUS_SERVICE_UNAVAILABLE == 503

MaxRequests == 2

RequestIds == 1..MaxRequests

\* the statuses the calculate route ends with: the handler's own response,
\* or an error of validateBody or calculateFromInput given to errorHandler
HandlerStatuses ==
    {HTTP_STATUS_OK, HTTP_STATUS_BAD_REQUEST, HTTP_STATUS_UNPROCESSABLE_ENTITY}

\* per request: tTimer: the timer of requestTimeout ("none" before the
\* middleware ran, then "armed", "fired" or "cleared"); tHandler: the route
\* ("none", "pending", "done"); tRes: the response object, with headersSent,
\* whether 'finish' was emitted, the responses sent and every call of
\* res.status(..).json(..) with its caller; tForwarded: errorHandler gave
\* the error to next(error)
VARIABLES tTimer, tHandler, tRes, tForwarded

timeoutVars == <<tTimer, tHandler, tRes, tForwarded>>

NewResponse == [headersSent |-> FALSE, finished |-> FALSE, sent |-> <<>>, attempts |-> <<>>]

TimeoutIdle ==
    /\ tTimer = [r \in RequestIds |-> "none"]
    /\ tHandler = [r \in RequestIds |-> "none"]
    /\ tRes = [r \in RequestIds |-> NewResponse]
    /\ tForwarded = [r \in RequestIds |-> FALSE]

\* res.status(status).json(body) called by `by`: the response goes out when
\* no headers were sent yet; otherwise the call throws and nothing goes out
json(resObj, by, status) ==
    [resObj EXCEPT
        !.attempts = Append(@, [by |-> by, status |-> status]),
        !.sent = IF resObj.headersSent THEN @ ELSE Append(@, status),
        !.headersSent = TRUE]

\* the middleware runs for a new request: setTimeout, the two listeners,
\* next()
RequestTimeout(r) ==
    /\ tTimer[r] = "none"
    /\ tTimer' = [tTimer EXCEPT ![r] = "armed"]
    /\ tHandler' = [tHandler EXCEPT ![r] = "pending"]
    /\ UNCHANGED <<tRes, tForwarded>>

\* the timer's callback runs
TimerFires(r) ==
    /\ tTimer[r] = "armed"
    /\ tTimer' = [tTimer EXCEPT ![r] = "fired"]
    /\ tRes' = IF ~tRes[r].headersSent
               THEN [tRes EXCEPT ![r] = json(@, "timer", HTTP_STATUS_SERVICE_UNAVAILABLE)]
               ELSE tRes
    /\ UNCHANGED <<tHandler, tForwarded>>

\* the route ends.  With HTTP_STATUS.OK the handler itself calls
\* res.status(..).json(..); when that throws, asyncHandler gives the error
\* to errorHandler.  With another status an error reached errorHandler.
\* errorHandler calls next(error) when the headers were sent and answers
\* otherwise.
HandlerResponds(r, status) ==
    /\ tHandler[r] = "pending"
    /\ tHandler' = [tHandler EXCEPT ![r] = "done"]
    /\ IF status = HTTP_STATUS_OK
       THEN /\ tRes' = [tRes EXCEPT ![r] = json(@, "handler", status)]
            /\ tForwarded' = [tForwarded EXCEPT ![r] = tRes[r].headersSent]
       ELSE IF tRes[r].headersSent
       THEN /\ tForwarded' = [tForwarded EXCEPT ![r] = TRUE]
            /\ UNCHANGED tRes
       ELSE /\ tRes' = [tRes EXCEPT ![r] = json(@, "errorHandler", status)]
            /\ UNCHANGED tForwarded
    /\ UNCHANGED tTimer

\* 'finish' (or 'close') is emitted for a response that went out:
\* clearTimeout(timer)
Finish(r) ==
    /\ tRes[r].headersSent
    /\ ~tRes[r].finished
    /\ tRes' = [tRes EXCEPT ![r].finished = TRUE]
    /\ tTimer' = [tTimer EXCEPT ![r] = IF @ = "armed" THEN "cleared" ELSE @]
    /\ UNCHANGED <<tHandler, tForwarded>>

\* the variables of the parts of the program that the engine does not touch
auxVars == <<httpVars, rateVars, cacheVars, parserVars, timeoutVars>>

AuxIdle == HttpIdle /\ RatesIdle /\ CacheIdle /\ ParserIdle /\ TimeoutIdle

(***************************************************************************)
(* The engine, one call of calculate step by step                          *)
(***************************************************************************)
\* eLocals keeps, per range, the unrounded locals of calculateForRange
VARIABLES eDefaults, eInput, eOverrides, ePc, eParams, eErrors, eLocals, eResults

engineVars ==
    <<eDefaults, eInput, eOverrides, ePc, eParams, eErrors, eLocals, eResults>>

EngineInit ==
    /\ eDefaults \in EngineDefaults
    /\ eInput \in EngineInputs
    /\ eOverrides \in EngineInputs
    /\ ePc = "start"
    /\ eParams = EmptyObject
    /\ eErrors = <<>>
    /\ eLocals = EmptyObject
    /\ eResults = EmptyObject
    /\ ServiceInit
    /\ AuxIdle

EngineMerge ==
    /\ ePc = "start"
    /\ eParams' = mergeParameters(eDefaults, eInput, eOverrides)
    /\ ePc' = "merged"
    /\ UNCHANGED <<eDefaults, eInput, eOverrides, eErrors, eLocals, eResults>>
    /\ UNCHANGED serviceVars
    /\ UNCHANGED auxVars

EngineValidate ==
    /\ ePc = "merged"
    /\ eErrors' = validateCalculationParameters(eParams)
    /\ ePc' = IF eErrors' = <<>> THEN "validated" ELSE "failed"
    /\ UNCHANGED <<eDefaults, eInput, eOverrides, eParams, eLocals, eResults>>
    /\ UNCHANGED serviceVars
    /\ UNCHANGED auxVars

EnginePerform ==
    /\ ePc = "validated"
    /\ eResults' = performCalculations(eParams)
    /\ eLocals' = IF IsThrown(eResults') THEN EmptyObject
                  ELSE [r \in Ranges |-> rangeLocals(r, eParams)]
    /\ ePc' = IF IsThrown(eResults') THEN "aborted" ELSE "done"
    /\ UNCHANGED <<eDefaults, eInput, eOverrides, eParams, eErrors>>
    /\ UNCHANGED serviceVars
    /\ UNCHANGED auxVars

EngineNext == EngineMerge \/ EngineValidate \/ EnginePerform

\* a rate above 0 and below MIN_POSITIVE_NUMBER: amounts divided by it leave
\* the integers the model checker computes with
TinyRate(params) ==
    \E c \in Currencies :
        /\ RLt(Zero, getValidNumber(Get(params.rates, c)))
        /\ ~isValidPositiveNumber(Get(params.rates, c))

\* performCalculations called on parameters as they are, with no validation
\* in front of it (the method is reachable on the exported calculator)
EngineDirect ==
    /\ ePc = "merged"
    /\ ~TinyRate(eParams)
    /\ eResults' = performCalculations(eParams)
    /\ eLocals' = IF IsThrown(eResults') THEN EmptyObject
                  ELSE [r \in Ranges |-> rangeLocals(r, eParams)]
    /\ ePc' = IF IsThrown(eResults') THEN "aborted" ELSE "direct"
    /\ UNCHANGED <<eDefaults, eInput, eOverrides, eParams, eErrors>>
    /\ UNCHANGED serviceVars
    /\ UNCHANGED auxVars

DirectNext == EngineMerge \/ EngineDirect

vars == <<serviceVars, engineVars, auxVars>>

SpecEngine == EngineInit /\ [][EngineNext]_vars

\* The direct calls start from the sheets that fill in their own rates: the
\* fallback rates (37.99, 33.99, 44.93) give quotients beyond the integers
\* the model checker computes with.
DirectDefaults == {extractDefaults(SheetFull), extractDefaults(SheetNoFabric)}

DirectInit == EngineInit /\ eDefaults \in DirectDefaults

SpecDirect == DirectInit /\ [][DirectNext]_vars

(***************************************************************************)
(* The service specification                                               *)
(***************************************************************************)
\* no step-by-step call of the engine is under way
EngineIdle ==
    /\ eDefaults = Null
    /\ eInput = EmptyObject
    /\ eOverrides = EmptyObject
    /\ ePc = "idle"
    /\ eParams = EmptyObject
    /\ eErrors = <<>>
    /\ eLocals = EmptyObject
    /\ eResults = EmptyObject

Init == ServiceInit /\ EngineIdle /\ AuxIdle

CalculateRequest ==
    /\ \E input \in ServiceInputs, overrides \in ServiceOverrides :
          Calculate(input, overrides)
    /\ UNCHANGED engineVars
    /\ UNCHANGED auxVars

FileModified ==
    /\ \E rows \in ServiceSheets : ModifyOdsFile(rows)
    /\ UNCHANGED engineVars
    /\ UNCHANGED auxVars

FileRemoved == RemoveOdsFile /\ UNCHANGED engineVars /\ UNCHANGED auxVars

TimePasses == Tick /\ UNCHANGED engineVars /\ UNCHANGED auxVars

Next == CalculateRequest \/ FileModified \/ FileRemoved \/ TimePasses

Spec == Init /\ [][Next]_vars

(***************************************************************************)
(* The specification of the HTTP layer                                     *)
(***************************************************************************)
HttpInit ==
    /\ ServiceInit
    /\ EngineIdle
    /\ nodeEnv \in NodeEnvs
    /\ response = NoResponse
    /\ RatesIdle
    /\ CacheIdle
    /\ ParserIdle
    /\ TimeoutIdle

HttpRequest ==
    /\ \E body \in HttpBodies : HttpCalculate(body)
    /\ UNCHANGED <<engineVars, rateVars, cacheVars, parserVars, timeoutVars>>

HttpFileModified ==
    /\ \E rows \in ServiceSheets : ModifyOdsFile(rows)
    /\ UNCHANGED <<engineVars, auxVars>>

HttpFileRemoved == RemoveOdsFile /\ UNCHANGED <<engineVars, auxVars>>

HttpTimePasses == Tick /\ UNCHANGED <<engineVars, auxVars>>

HttpNext == HttpRequest \/ HttpFileModified \/ HttpFileRemoved \/ HttpTimePasses

SpecHttp == HttpInit /\ [][HttpNext]_vars

(***************************************************************************)
(* The specification of the exchange rate service                          *)
(***************************************************************************)
RatesInit ==
    /\ ServiceInit
    /\ EngineIdle
    /\ HttpIdle
    /\ CacheIdle
    /\ ParserIdle
    /\ TimeoutIdle
    /\ xApiKey \in BOOLEAN
    /\ xPc = "idle"
    /\ xAttempt = 0
    /\ xAttempts = 0
    /\ xSleeps = <<>>
    /\ xLastError = NoError
    /\ xRaised = ""
    /\ xRates = Null
    /\ xSource = ""
    /\ xCalls = 0

RatesRequest == GetCurrentRates /\ UNCHANGED <<engineVars, httpVars, cacheVars, parserVars, timeoutVars>>

RatesAttempt ==
    /\ \E outcome \in ApiOutcomes : ApiAttempt(outcome)
    /\ UNCHANGED <<engineVars, httpVars, cacheVars, parserVars, timeoutVars>>

RatesSleepDone == SleepDone /\ UNCHANGED <<engineVars, httpVars, cacheVars, parserVars, timeoutVars>>

RatesNext == RatesRequest \/ RatesAttempt \/ RatesSleepDone

SpecRates == RatesInit /\ [][RatesNext]_vars

(***************************************************************************)
(* The specification of the cache on its own                               *)
(***************************************************************************)
CacheInit ==
    /\ ServiceInit
    /\ EngineIdle
    /\ AuxIdle

CacheNext ==
    \/ \E key \in CacheKeys : CacheSet(key) /\ UNCHANGED <<engineVars, httpVars, rateVars, parserVars, timeoutVars>>
    \/ \E key \in CacheKeys : CacheGet(key) /\ UNCHANGED <<engineVars, httpVars, rateVars, parserVars, timeoutVars>>
    \/ \E key \in CacheKeys : CacheHas(key) /\ UNCHANGED <<engineVars, httpVars, rateVars, parserVars, timeoutVars>>
    \/ CacheTick /\ UNCHANGED <<engineVars, httpVars, rateVars, parserVars, timeoutVars>>

SpecCache == CacheInit /\ [][CacheNext]_vars

(***************************************************************************)
(* The specification of the parser on its own                              *)
(***************************************************************************)
ParserInit ==
    /\ ServiceInit
    /\ EngineIdle
    /\ AuxIdle

ParserNext ==
    \/ ParseOdsDefaults /\ UNCHANGED <<engineVars, httpVars, rateVars, cacheVars, timeoutVars>>
    \/ ParserFileModified /\ UNCHANGED <<engineVars, httpVars, rateVars, cacheVars, timeoutVars>>
    \/ ParserFileRemoved /\ UNCHANGED <<engineVars, httpVars, rateVars, cacheVars, timeoutVars>>
    \/ ParserTick /\ UNCHANGED <<engineVars, httpVars, rateVars, cacheVars, timeoutVars>>

SpecParser == ParserInit /\ [][ParserNext]_vars

(***************************************************************************)
(* The specification of requestTimeout                                     *)
(***************************************************************************)
TimeoutInit ==
    /\ ServiceInit
    /\ EngineIdle
    /\ AuxIdle

TimeoutArrives ==
    /\ \E r \in RequestIds : RequestTimeout(r)
    /\ UNCHANGED <<serviceVars, engineVars, httpVars, rateVars, cacheVars, parserVars>>

TimeoutTimer ==
    /\ \E r \in RequestIds : TimerFires(r)
    /\ UNCHANGED <<serviceVars, engineVars, httpVars, rateVars, cacheVars, parserVars>>

TimeoutHandler ==
    /\ \E r \in RequestIds, status \in HandlerStatuses : HandlerResponds(r, status)
    /\ UNCHANGED <<serviceVars, engineVars, httpVars, rateVars, cacheVars, parserVars>>

TimeoutFinish ==
    /\ \E r \in RequestIds : Finish(r)
    /\ UNCHANGED <<serviceVars, engineVars, httpVars, rateVars, cacheVars, parserVars>>

TimeoutNext == TimeoutArrives \/ TimeoutTimer \/ TimeoutHandler \/ TimeoutFinish

SpecTimeout == TimeoutInit /\ [][TimeoutNext]_vars

(***************************************************************************)
(* Claims on the engine (SpecEngine)                                       *)
(***************************************************************************)
\* a missing or non-numeric value of a range map counts as 0
NumOrZero(v) == IF IsNum(v) THEN v ELSE Zero

Hundred == Int2Num(100)

\* C1: for a validated parameter set and every range r with batch size
\* n >= 1, the unrounded values of calculateForRange are those of the
\* reference algorithm: raw = (fabricCost + opsTotal/n/EUR) * n, overhead and
\* profit are percentages of raw, taxable is their sum with raw, VAT and
\* commission are percentages of taxable, finalEur is their sum with taxable,
\* finalTry = finalEur * EUR, finalUsd = finalTry / USD, finalGbp = finalTry / GBP.
C1_ReferenceAlgorithm ==
    ePc = "done" =>
        \A r \in Ranges :
            LET v == eLocals[r]
                n == eParams.batch[r]
                raw == RMul(RAdd(v.fabricCostEur,
                                 RDiv(RDiv(v.totalOpsTry, n), eParams.rates["EUR"])),
                            n)
                overhead == RDiv(RMul(raw, NumOrZero(Get(eParams.genel_gider, r))), Hundred)
                profit == RDiv(RMul(raw, NumOrZero(Get(eParams.karlilik, r))), Hundred)
                taxable == RAdd(RAdd(raw, overhead), profit)
                vat == RDiv(RMul(taxable, eParams.KDV), Hundred)
                commission == RDiv(RMul(taxable, eParams.komisyon), Hundred)
                finalEur == RAdd(RAdd(taxable, vat), commission)
                finalTry == RMul(finalEur, eParams.rates["EUR"])
            IN  RLeq(Int2Num(1), n) =>
                    /\ v.hamMaliyetEur = raw
                    /\ v.genelGiderEur = overhead
                    /\ v.karEur = profit
                    /\ v.taxableEur = taxable
                    /\ v.kdvEur = vat
                    /\ v.commissionEur = commission
                    /\ v.finalEur = finalEur
                    /\ v.finalTry = finalTry
                    /\ v.finalUsd = RDiv(finalTry, eParams.rates["USD"])
                    /\ v.finalGbp = RDiv(finalTry, eParams.rates["GBP"])

\* a computed range with operation costs, overhead, profit, VAT and commission
C1_Witness ==
    /\ ePc = "done"
    /\ \E r \in Ranges :
          /\ eLocals[r].totalOpsTry # Zero
          /\ eLocals[r].fabricCostEur # Zero
          /\ eLocals[r].genelGiderEur # Zero
          /\ eLocals[r].karEur # Zero
          /\ eLocals[r].kdvEur # Zero
          /\ eLocals[r].commissionEur # Zero

ScalarFields == {"KDV", "komisyon"}
MappingFields == {"rates", "fabric", "genel_gider", "karlilik", "operations"}

\* the value three layers resolve to: the override's, else the user's, else
\* the default
Layered(override, user, default) ==
    IF ~IsNullish(override) THEN override
    ELSE IF ~IsNullish(user) THEN user ELSE default

\* C2: each scalar field (KDV, komisyon) resolves to the system override's
\* value when the override supplies it, else to the user's, else to the default.
C2_ScalarPrecedence ==
    ePc # "start" =>
        \A f \in ScalarFields :
            eParams[f] = Layered(Get(eOverrides, f), Get(eInput, f), eDefaults[f])

\* C3: for every mapping field among rates, fabric, genel_gider, karlilik and
\* operations and every key k, the resolved value of k is the override's if the
\* override mapping has k, else the user's if the user mapping has k, else the
\* default; no other key appears.
C3_MappingPrecedence ==
    ePc # "start" =>
        \A f \in MappingFields :
            LET o == OrEmpty(Get(eOverrides, f))
                u == OrEmpty(Get(eInput, f))
                d == eDefaults[f]
            IN  /\ DOMAIN eParams[f] = DOMAIN o \cup DOMAIN u \cup DOMAIN d
                /\ \A k \in DOMAIN eParams[f] :
                      eParams[f][k] =
                          IF k \in DOMAIN o THEN o[k]
                          ELSE IF k \in DOMAIN u THEN u[k] ELSE d[k]

\* a key given different values by the defaults, the user and the override
C3_Witness ==
    /\ ePc # "start"
    /\ \E f \in MappingFields :
          /\ f \in DOMAIN eInput
          /\ f \in DOMAIN eOverrides
          /\ \E k \in DOMAIN eDefaults[f] :
                /\ k \in DOMAIN eInput[f]
                /\ k \in DOMAIN eOverrides[f]
                /\ eInput[f][k] # eOverrides[f][k]
                /\ eDefaults[f][k] # eOverrides[f][k]
                /\ eParams[f][k] = eOverrides[f][k]

\* C4: a batch size the system overrides supply for range r is the batch size
\* of r in the resolved parameters.
C4_BatchOverride ==
    (ePc # "start" /\ "batch" \in DOMAIN eOverrides) =>
        \A r \in DOMAIN eOverrides["batch"] :
            Get(eParams.batch, r) = eOverrides["batch"][r]

\* the fields of the resolved parameters that break a rule validation checks:
\* a rate that is not above 0, a negative fabric price, a VAT or commission
\* outside [0, 100], a batch size outside [MIN_BATCH_SIZE, MAX_BATCH_SIZE]
ViolatedFields(params) ==
    {<<"Invalid exchange rate for", c>> : c \in
        {c \in Currencies : ~RLt(Zero, NumOrZero(Get(params.rates, c)))}}
    \cup {<<"Invalid fabric price for", k>> : k \in
        {k \in DOMAIN params.fabric :
            IsNum(params.fabric[k]) /\ RLt(params.fabric[k], Zero)}}
    \cup (IF RLt(params.KDV, Zero) \/ RLt(Hundred, params.KDV)
          THEN {<<"Invalid KDV percentage", "KDV">>} ELSE {})
    \cup (IF RLt(params.komisyon, Zero) \/ RLt(Hundred, params.komisyon)
          THEN {<<"Invalid komisyon percentage", "komisyon">>} ELSE {})
    \cup {<<"Invalid batch size for range", r>> : r \in
        {r \in Ranges :
            LET n == NumOrZero(Get(params.batch, r))
            IN  RLt(n, Int2Num(MIN_BATCH_SIZE)) \/ RLt(Int2Num(MAX_BATCH_SIZE), n)}}

ReportedFields(errors) == {<<errors[i].msg, errors[i].key>> : i \in DOMAIN errors}

C9_ZeroFabricPasses ==
    (/\ ePc \in {"validated", "failed", "done"}
     /\ \A k \in DOMAIN eParams.fabric :
           IsNullish(eParams.fabric[k])
           \/ (IsNum(eParams.fabric[k]) /\ RLeq(Zero, eParams.fabric[k])))
    => \A i \in DOMAIN eErrors : eErrors[i].msg # "Invalid fabric price for"

\* C10: parameters with an overhead or profit percentage outside [0, 100]
\* for some range never pass validation.
C10_OverheadProfitRejected ==
    ePc \in {"validated", "done"} =>
        \A r \in Ranges :
            /\ isValidPercentage(Get(eParams.genel_gider, r))
            /\ isValidPercentage(Get(eParams.karlilik, r))

(***************************************************************************)
(* Claims on the service (Spec)                                            *)
(***************************************************************************)
\* what a computation of (input, overrides) on the given defaults yields,
\* with no cache in front of it
FreshOutcome(defaults, input, overrides) ==
    Only({
        IF validateCalculationParameters(params) # <<>>
        THEN [outcome |-> "error", params |-> Null, result |-> Null]
        ELSE IF IsThrown(performCalculations(params))
        THEN [outcome |-> "error", params |-> Null, result |-> Null]
        ELSE [outcome |-> "ok", params |-> params,
              result |-> performCalculations(params)]
    : params \in {mergeParameters(defaults, input, overrides)} })

\* the last call returned or threw what the fresh computation yields
AnswersFresh(defaults) ==
    Only({
        /\ call.outcome = fresh.outcome
        /\ call.outcome = "ok" =>
              /\ call.output.params = fresh.params
              /\ call.output.result = fresh.result
    : fresh \in {FreshOutcome(defaults, call.input, call.overrides)} })

\* C5: while the defaults are fixed (the file has not changed), every call of
\* calculateFromInput returns the parameters and range results that a fresh
\* computation on its own input and overrides yields, whatever calls came
\* before it.
C5_PureAcrossCalls ==
    (call.outcome # "none" /\ edits = 0) => AnswersFresh(call.defaultsNow)

\* C6: a call answered from its own input and overrides, made while the file
\* holds valid defaults on which its parameters pass validation, returns
\* parameters and results computed from the defaults the file holds at the
\* time of the call.
C6_FreshDefaults ==
    ( /\ call.outcome = "ok"
      /\ call.served = [input |-> call.input, overrides |-> call.overrides]
      /\ call.defaultsNow # Null
      /\ validateDefaults(call.defaultsNow)
      /\ FreshOutcome(call.defaultsNow, call.input, call.overrides).outcome = "ok" )
    => AnswersFresh(call.defaultsNow)

\* the currencies for which the caller's layers resolve to a rate of exactly 0
ZeroRatesSupplied(input, overrides) ==
    {c \in Currencies :
        Get(Spread(OrEmpty(Get(input, "rates")), OrEmpty(Get(overrides, "rates"))), c)
            = Zero}

\* C8: a call whose caller-supplied rate for a supported currency is exactly 0
\* fails, the failure names that currency, no range is computed and nothing
\* is returned or cached.
C8_ZeroRateFails ==
    (call.outcome # "none" /\ odsFile.exists /\ edits = 0) =>
        \A c \in ZeroRatesSupplied(call.input, call.overrides) :
            /\ call.outcome = "error"
            /\ call.cause = "validation"
            /\ <<"Invalid exchange rate for", c>> \in ReportedFields(call.errors)
            /\ call.ranges = {}
            /\ ~call.stored
            /\ call.output = Null

(***************************************************************************)
(* Claims on validation and on the range results                           *)
(***************************************************************************)
\* the bounds the API documents for the batch size of each range
\* (CalculationInput.batch: minimum and maximum per range)
BatchMinimum(r) == CASE r = "0-50" -> 1 [] r = "51-100" -> 51 [] r = "101-200" -> 101
BatchMaximum(r) == CASE r = "0-50" -> 50 [] r = "51-100" -> 100 [] r = "101-200" -> 200

\* C11: parameters pass validation only if the batch size of every range
\* lies within the bounds of that range (1..50, 51..100, 101..200).
C11_BatchBoundsPerRange ==
    ePc \in {"validated", "done"} =>
        \A r \in Ranges :
            /\ RLeq(Int2Num(BatchMinimum(r)), getValidNumber(Get(eParams.batch, r)))
            /\ RLeq(getValidNumber(Get(eParams.batch, r)), Int2Num(BatchMaximum(r)))

\* C12: a violation of the validation rules leaves calculateFromInput as a
\* ValidationError, a kind other than CalculationError.
C12_ValidationErrorKind ==
    call.cause = "validation" => call.error = "ValidationError"

\* C13: whenever the calculation succeeds, the result map has an entry for
\* each configured range, labelled with that range, and no other key.
C13_Completeness ==
    ePc = "done" =>
        /\ DOMAIN eResults = Ranges
        /\ \A r \in Ranges : eResults[r].range = r

\* a success on parameters whose operations and whose user batch mention only
\* some of the ranges
C13_Witness ==
    /\ ePc = "done"
    /\ UNION {DOMAIN eParams.operations[op] : op \in DOMAIN eParams.operations} # Ranges
    /\ "batch" \in DOMAIN eInput
    /\ DOMAIN eInput["batch"] # Ranges

\* a cost that is taken away
Removed == [t |-> "removed"]

\* what the cost of one range is replaced by: nothing, null, text, another number
CorruptCosts == {Removed, Null, NaNString, Int2Num(7777)}

\* the costs of an operation with the cost of range r replaced by v
SetCost(costs, r, v) ==
    IF v = Removed
    THEN [k \in DOMAIN costs \ {r} |-> costs[k]]
    ELSE [k \in DOMAIN costs \cup {r} |-> IF k = r THEN v ELSE costs[k]]

\* a layer (user input or overrides) with the cost of operation op for range r
\* replaced by v
SetLayerCost(layer, op, r, v) ==
    [k \in DOMAIN layer |->
        IF k = "operations"
        THEN [o \in DOMAIN layer[k] |->
                 IF o = op THEN SetCost(layer[k][o], r, v) ELSE layer[k][o]]
        ELSE layer[k]]

\* the operations a layer names
LayerOperations(layer) ==
    IF "operations" \in DOMAIN layer THEN DOMAIN layer["operations"] ELSE {}

\* the result of range q when the input and the overrides are as given
ResultOf(q, input, overrides) ==
    calculateForRange(q, mergeParameters(eDefaults, input, overrides))

\* C14: after a successful calculation, replacing or removing the cost of one
\* range r of an operation, in the user input or in the overrides, leaves the
\* parameters valid and the result of every other range as it was.
C14_RangeIndependence ==
    ePc = "done" =>
        \A r \in Ranges, v \in CorruptCosts :
            /\ \A op \in LayerOperations(eInput) :
                  /\ validateCalculationParameters(
                         mergeParameters(eDefaults, SetLayerCost(eInput, op, r, v),
                                         eOverrides)) = <<>>
                  /\ \A q \in Ranges \ {r} :
                        ResultOf(q, SetLayerCost(eInput, op, r, v), eOverrides)
                            = eResults[q]
            /\ \A op \in LayerOperations(eOverrides) :
                  /\ validateCalculationParameters(
                         mergeParameters(eDefaults, eInput,
                                         SetLayerCost(eOverrides, op, r, v))) = <<>>
                  /\ \A q \in Ranges \ {r} :
                        ResultOf(q, eInput, SetLayerCost(eOverrides, op, r, v))
                            = eResults[q]

\* a success whose user input prices an operation for a range, where taking
\* that cost away changes the result of the range itself
C14_Witness ==
    /\ ePc = "done"
    /\ \E op \in LayerOperations(eInput) :
          \E r \in DOMAIN eInput["operations"][op] :
              ResultOf(r, SetLayerCost(eInput, op, r, Removed), eOverrides)
                  # eResults[r]

FinalFields == {"finalEur", "finalTry", "finalUsd", "finalGbp"}

\* C15: for every parameter set that passes validation and keeps its overhead
\* and profit percentages within [0, 100], the final totals of every range,
\* in every currency, are at least 0.
C15_NonNegativeFinals ==
    ( /\ ePc = "done"
      /\ \A r \in Ranges :
            /\ isValidPercentage(Get(eParams.genel_gider, r))
            /\ isValidPercentage(Get(eParams.karlilik, r)) )
    => \A r \in Ranges, f \in FinalFields : RLeq(Zero, eResults[r][f])

\* the sum of the values of a map of numbers
RECURSIVE SumValues(_)
SumValues(m) ==
    IF DOMAIN m = {} THEN Zero
    ELSE LET k == CHOOSE x \in DOMAIN m : TRUE
         IN  RAdd(m[k], SumValues([x \in DOMAIN m \ {k} |-> m[x]]))

\* the operations of the defaults that neither the user nor the overrides name
DefaultOnlyOperations ==
    DOMAIN eDefaults.operations \ (LayerOperations(eInput) \cup LayerOperations(eOverrides))

\* C16: the operations total of range r is the sum, over the operations of the
\* merged map, of each operation's cost for r, an absent cost counting as 0; an
\* operation only the defaults name is in the merged map with its default costs.
C16_OperationsTotal ==
    ePc = "done" =>
        /\ \A r \in Ranges :
              eLocals[r].totalOpsTry =
                  SumValues([op \in DOMAIN eParams.operations |->
                                NumOrZero(Get(eParams.operations[op], r))])
        /\ \A op \in DefaultOnlyOperations :
              /\ op \in DOMAIN eParams.operations
              /\ eParams.operations[op] = eDefaults.operations[op]

\* the user names an operation the defaults lack, and an operation only the
\* defaults name adds its cost to a total
C16_Witness ==
    /\ ePc = "done"
    /\ LayerOperations(eInput) \ DOMAIN eDefaults.operations # {}
    /\ \E op \in DefaultOnlyOperations, r \in Ranges :
          /\ RLt(Zero, NumOrZero(Get(eDefaults.operations[op], r)))
          /\ RLt(NumOrZero(Get(eDefaults.operations[op], r)), eLocals[r].totalOpsTry)

\* absent, null or a number that is at least 0
NonNegativeOrAbsent(v) == IsNullish(v) \/ (IsNum(v) /\ RLeq(Zero, v))

ScenarioA ==
    /\ eParams.rates = Obj({<<"EUR", Num(385, 10)>>, <<"USD", Num(342, 10)>>,
                             <<"GBP", Num(451, 10)>>})
    /\ Get(eParams.fabric, "unit_eur") = Int2Num(5)
    /\ \A op \in DOMAIN eParams.operations :
          getValidNumber(Get(eParams.operations[op], "0-50")) = Zero
    /\ Get(eParams.genel_gider, "0-50") = Zero
    /\ Get(eParams.karlilik, "0-50") = Zero
    /\ eParams.KDV = Int2Num(18)
    /\ eParams.komisyon = Int2Num(3)
    /\ Get(eParams.batch, "0-50") = Int2Num(25)

\* C18: scenario A (rates 38.50 / 34.20 / 45.10, unit price 5, no operation
\* cost, no overhead, no profit, VAT 18, commission 3, 25 pieces) gives for
\* range 0-50: perUnitEur 5.00, hamMaliyetEur 125.00, taxableEur 125.00,
\* kdvEur 22.50, commissionEur 3.75, finalEur 151.25 and finalTry 5823.13.
C18_ScenarioA ==
    (ePc = "done" /\ ScenarioA)
    => /\ eResults["0-50"].perUnitEur = Int2Num(5)
       /\ eResults["0-50"].hamMaliyetEur = Int2Num(125)
       /\ eResults["0-50"].taxableEur = Int2Num(125)
       /\ eResults["0-50"].kdvEur = Num(2250, 100)
       /\ eResults["0-50"].commissionEur = Num(375, 100)
       /\ eResults["0-50"].finalEur = Num(15125, 100)
       /\ eResults["0-50"].finalTry = Num(582313, 100)

\* scenario A has been calculated; the unrounded final is 5823.125
C18_Witness ==
    /\ ePc = "done"
    /\ ScenarioA
    /\ eInput = InputScenarioA
    /\ eLocals["0-50"].finalTry = Num(5823125, 1000)

\* the monetary fields of a range result
MoneyFields ==
    {"fabricCostEur", "perUnitOpsTry", "perUnitOpsEur", "perUnitEur",
     "hamMaliyetEur", "genelGiderEur", "karEur", "taxableEur", "kdvEur",
     "commissionEur", "finalEur", "finalTry", "finalUsd", "finalGbp",
     "perUnitFinalEur", "perUnitFinalTry", "perUnitFinalUsd",
     "perUnitFinalGbp"}

\* rounding to 2 decimals that takes a half to the cent farther from zero:
\* the magnitude is rounded half up and the sign is put back
RoundHalfAway(v) ==
    LET whole == Abs(v.n) \div v.d
        fraction == Num(Abs(v.n) % v.d, v.d)
        magnitude == RAdd(Int2Num(whole),
                          Num(RFloor(RAdd(RMul(fraction, Int2Num(100)),
                                          Num(1, 2))), 100))
    IN  IF v.n < 0 THEN Num(-magnitude.n, magnitude.d) ELSE magnitude

\* C19: every monetary field of every range result is the unrounded value of
\* the calculation, itself computed from unrounded upstream values, rounded
\* to 2 decimals with a half going to the cent farther from zero, for
\* negative as well as positive values.
C19_RoundHalfAway ==
    ePc = "done"
    => \A r \in Ranges : \A f \in MoneyFields :
          eResults[r][f] = RoundHalfAway(eLocals[r][f])

PerUnitFinalFields ==
    {"perUnitFinalEur", "perUnitFinalTry", "perUnitFinalUsd", "perUnitFinalGbp"}

\* C20: when the range computation runs with a batch size of 0 for a range,
\* it still returns a result for that range, in which the per-unit operation
\* cost and the four per-unit finals are 0, before and after rounding.
C20_GuardedDivision ==
    ePc = "direct"
    => \A r \in Ranges :
          Get(eParams.batch, r) = Zero
          => /\ r \in DOMAIN eResults
             /\ eLocals[r].perUnitOpsTry = Zero
             /\ eResults[r].perUnitOpsTry = Zero
             /\ \A f \in PerUnitFinalFields :
                   eLocals[r][f] = Zero /\ eResults[r][f] = Zero

\* a batch size of 0 beside operation costs and a fabric price above 0
C20_Witness ==
    /\ ePc = "direct"
    /\ Get(eParams.batch, "0-50") = Zero
    /\ RLt(Zero, eLocals["0-50"].totalOpsTry)
    /\ RLt(Zero, eLocals["0-50"].fabricCostEur)
    /\ eResults["0-50"].perUnitOpsTry = Zero

(***************************************************************************)
(* Claims on failures                                                      *)
(***************************************************************************)
\* C21: when performCalculations runs on parameters in which the rate of a
\* supported currency is missing or 0, it throws a CalculationError instead
\* of returning range results.
C21_ZeroRateFailsRange ==
    ( /\ ePc \in {"direct", "aborted"}
      /\ \E c \in Currencies : getValidNumber(Get(eParams.rates, c)) = Zero )
    => IsThrown(eResults) /\ eResults.error = "CalculationError"

\* the request names an operation whose entry is null: input and overrides
\* win over the defaults, so the merged operations hold the null entry
NullOperation(input, overrides) ==
    \E op \in DOMAIN Spread(OrEmpty(Get(input, "operations")),
                            OrEmpty(Get(overrides, "operations"))) :
        Spread(OrEmpty(Get(input, "operations")),
               OrEmpty(Get(overrides, "operations")))[op] = Null

\* C22: a call whose range computation fails ends in a CalculationError and
\* stores nothing; every result map returned as success or kept in the
\* calculation cache covers all configured ranges.
C22_RangeFailureAborts ==
    /\ ( /\ call.outcome # "none"
         /\ ~call.fromCache
         /\ NullOperation(call.input, call.overrides) )
       => /\ call.outcome = "error"
          /\ call.error = "CalculationError"
          /\ ~call.stored
    /\ call.outcome = "ok" => DOMAIN call.output.result = Ranges
    /\ \A k \in DOMAIN cache :
          k[1] = "calculation" => DOMAIN cache[k].data.result = Ranges

\* the range computation of a call has failed after an earlier call succeeded
C22_Witness ==
    /\ call.outcome = "error"
    /\ call.cause = "range"
    /\ NullOperation(call.input, call.overrides)
    /\ \E k \in DOMAIN cache : k[1] = "calculation"

\* the error kinds parseOdsDefaults throws
ProviderErrors == {"FileNotFoundError", "FileParseError"}

\* C23: a call during which the defaults provider fails throws the provider's
\* own error, not an error of another kind.
C23_ProviderFailureSurfaces ==
    (call.outcome = "error" /\ call.cause \in ProviderErrors)
    => call.error = call.cause

(***************************************************************************)
(* Claims on the HTTP layer (SpecHttp)                                     *)
(***************************************************************************)
\* C24: a response that reports a CalculationError has a status from 500 to
\* 599, and a response that reports a request-validation failure has
\* status 400.
C24_StatusClasses ==
    /\ response.name = "CalculationError"
       => response.status >= 500 /\ response.status <= 599
    /\ response.name = "ValidationError" => response.status = 400

\* the message texts of the errors that calculateFromInput wraps: those of
\* the parser's errors, with the path of the file, and of the TypeError
InternalErrorTexts ==
    {ProviderMessage(e)[i] : e \in ProviderErrors, i \in 1..2}
        \cup {"Cannot read properties of null"}

\* C25: in production the response for a failed calculation holds no stack
\* trace and no message text of the internal error behind the failure.
C25_MinimalDetailInProduction ==
    (nodeEnv = "production" /\ response.name = "CalculationError")
    => /\ ~response.stack
       /\ \A i \in DOMAIN response.message :
             response.message[i] \notin InternalErrorTexts

(***************************************************************************)
(* Claims on the exchange rate service (SpecRates)                         *)
(***************************************************************************)
\* C26: whatever getCurrentRates returns (from the cache, without an API
\* key, from a response of any format, or after every attempt failed) is a
\* rates object in which each supported currency is a number above 0.
C26_RatesAlwaysPositive ==
    xPc = "returned"
    => /\ IsObject(xRates)
       /\ \A c \in Currencies :
             /\ c \in DOMAIN xRates
             /\ IsNum(xRates[c])
             /\ RLt(Zero, xRates[c])

\* a response with one good rate, a rate of 0 and a negative rate has been
\* returned with the defaults for the latter two
C26_Witness ==
    /\ xPc = "returned"
    /\ xSource = "api"
    /\ xRates["EUR"] = Int2Num(38)
    /\ xRates["USD"] = DEFAULT_EXCHANGE_RATES["USD"]
    /\ xRates["GBP"] = DEFAULT_EXCHANGE_RATES["GBP"]

\* the delays of a call that has failed k times and goes on
DelaysAfter(k) == [i \in 1..k |-> retryDelay * i]

\* what holds of a call of getCurrentRates at each of its positions
RetryState ==
    /\ xAttempts <= maxRetries
    /\ xPc = "fetching"
        => /\ xAttempts = xAttempt - 1
           /\ xSleeps = DelaysAfter(xAttempts)
           /\ xRaised = ""
    /\ xPc = "sleeping"
        => /\ xAttempts = xAttempt
           /\ xAttempts < maxRetries
           /\ xSleeps = DelaysAfter(xAttempts)
           /\ xRaised = ""
    /\ (xPc = "returned" /\ xSource = "api")
        => /\ xAttempts >= 1
           /\ xSleeps = DelaysAfter(xAttempts - 1)
           /\ xRaised = ""
    /\ xRaised # ""
        => /\ xRaised \in {"TimeoutError", "ExternalApiError"}
           /\ xAttempts = maxRetries
           /\ xSleeps = DelaysAfter(maxRetries - 1)
           /\ xSource = "fallback"
    /\ (xPc = "returned" /\ xSource = "fallback")
        => /\ xRaised # ""
           /\ KEY_EXCHANGE_RATES \notin DOMAIN cache

\* what holds of each step after getCurrentRates has returned: no further
\* attempt or sleep of that call, and after a fallback the next call goes to
\* the API
RetryStep ==
    xPc = "returned"
    => /\ xCalls' = xCalls => (xAttempts' = xAttempts /\ xSleeps' = xSleeps)
       /\ (xCalls' # xCalls /\ xSource = "fallback")
            => (xPc' = "fetching" /\ xAttempt' = 1 /\ xAttempts' = 0)

\* C29: a call makes at most maxRetries attempts, returns at the first
\* success without a further attempt, sleeps retryDelay * attempt after each
\* failed attempt but the last, raises TimeoutError or ExternalApiError only
\* after maxRetries failures, and the defaults returned after that are not
\* cached, so that the next call goes to the API again.
C29_BoundedRetry == [](RetryState) /\ [][RetryStep]_vars

\* a second call has failed three times like the first, with both delays
\* slept, and has returned the defaults after a TimeoutError
C29_Witness ==
    /\ xPc = "returned"
    /\ xSource = "fallback"
    /\ xRaised = "TimeoutError"
    /\ xAttempts = maxRetries
    /\ xSleeps = <<retryDelay, retryDelay * 2>>
    /\ xCalls = 2

(***************************************************************************)
(* Claims on the cache (SpecCache)                                         *)
(***************************************************************************)
\* the key was set and the last set is no more than its ttl ago
FreshlyStored(key) ==
    key \in DOMAIN kStored /\ now - kStored[key].at <= ttlOf(key)

\* a step that is a get: it returns the data of the last set of the key when
\* that set is no more than the ttl ago, and counts a hit; otherwise it
\* returns null, leaves no entry for the key and counts a miss
GetStep ==
    (kOps' # kOps /\ kLast'.op = "get")
    => IF FreshlyStored(kLast'.key)
       THEN /\ kLast'.result = kStored[kLast'.key].data
            /\ kStats'.hits = kStats.hits + 1
            /\ kStats'.misses = kStats.misses
       ELSE /\ kLast'.result = Null
            /\ kLast'.key \notin DOMAIN cache'
            /\ kStats'.misses = kStats.misses + 1
            /\ kStats'.hits = kStats.hits

\* C27: in every sequence of set, get and has with advancing time, a get
\* returns data only of an entry stored no more than its ttl ago (2, 5 and
\* 15 minutes by kind of key); a get of an older entry returns null,
\* removes the entry and counts a miss; a later set restarts the ttl.
C27_CacheExpiry == [][GetStep]_vars

\* the exchange rates, set at minute 0, were got at minute 16: null, a
\* miss, and the entry is gone
C27_Witness ==
    /\ kLast = [op |-> "get", key |-> KEY_EXCHANGE_RATES, result |-> Null]
    /\ KEY_EXCHANGE_RATES \in DOMAIN kStored
    /\ kStored[KEY_EXCHANGE_RATES].at = 0
    /\ now = 16
    /\ kStats.misses = 1
    /\ KEY_EXCHANGE_RATES \notin DOMAIN cache

(***************************************************************************)
(* Claims on the parser (SpecParser)                                       *)
(***************************************************************************)
\* a step that is a call of parseOdsDefaults:
\*  - it answers from the cache only when an entry no older than its ttl
\*    exists and the file's mtime is the recorded one;
\*  - after a change of the file it reads the file, and what it returns are
\*    the validated defaults of the file as it is now;
\*  - when it fails, a get of the cached defaults gives what it gave before
\*    and lastModified is what it was.
ParseStep ==
    pCalls' # pCalls
    => /\ pLast'.fromCache
           => /\ KEY_ODS_DEFAULTS \in DOMAIN cache
              /\ now - cache[KEY_ODS_DEFAULTS].createdAt <= CACHE_EXPIRATION_ODS_DATA
              /\ pLast'.value = cache[KEY_ODS_DEFAULTS].data
              /\ odsFile.exists
              /\ lastModified # 0
              /\ odsFile.mtime = lastModified
       /\ pDirty
           => /\ ~pLast'.fromCache
              /\ pLast'.ok => /\ pLast'.value = extractDefaults(odsFile.rows)
                               /\ validateDefaults(pLast'.value)
       /\ ~pLast'.ok
           => /\ cacheGet(cache', KEY_ODS_DEFAULTS, now) = cacheGet(cache, KEY_ODS_DEFAULTS, now)
              /\ KEY_ODS_DEFAULTS \in DOMAIN cache'
                    => cache'[KEY_ODS_DEFAULTS] = cache[KEY_ODS_DEFAULTS]
              /\ lastModified' = lastModified

\* C28: parseOdsDefaults returns the cached defaults only when an unexpired
\* entry exists and the file's modification time is the one recorded at the
\* last successful parse; after the file is modified the next call reads
\* and validates the file again; a failing call leaves the cached defaults
\* and the recorded modification time as they were.
C28_ParserCaching == [][ParseStep]_vars

\* after a successful parse the file was rewritten with a text KDV cell,
\* and the call that followed failed while the defaults of the first parse
\* are still cached under the first modification time
C28_Witness ==
    /\ pLast.error = "FileParseError"
    /\ pCalls = 2
    /\ pDirty
    /\ odsFile.rows = SheetBadKDV
    /\ cacheGet(cache, KEY_ODS_DEFAULTS, now) = extractDefaults(SheetFull)
    /\ lastModified = 1
    /\ odsFile.mtime = 2

(***************************************************************************)
(* Claims on requestTimeout (SpecTimeout)                                  *)
(***************************************************************************)
\* no request gets more than one response on the wire
OneResponseSent == \A r \in RequestIds : Len(tRes[r].sent) <= 1

\* C30: under every interleaving of the timer and the route handler at
\* most one response is sent for a request: once the timer has sent the 503
\* the handler's completion neither sends nor attempts to send another
\* response, and once the handler has responded the timer never sends.
C30_SingleResponse ==
    \A r \in RequestIds :
        /\ Len(tRes[r].sent) <= 1
        /\ Len(tRes[r].attempts) <= 1
        /\ (tRes[r].attempts # <<>> /\ tRes[r].attempts[1].by # "timer")
            => /\ \A i \in DOMAIN tRes[r].attempts : tRes[r].attempts[i].by # "timer"
               /\ tRes[r].finished => tTimer[r] # "armed"

====
